---- MODULE Spec2Model ----
(***************************************************************************)
(* engram-mcp: the memory store of src/src/db/database.ts (class           *)
(* MemoryDatabase over SQLite: tables memories, memory_links,              *)
(* memory_history, the FTS5 index memories_fts and their triggers).        *)
(*                                                                         *)
(* Text is a sequence of one-character strings, so that trim, lower-case,  *)
(* tokenising and SQLite's byte-wise text comparison are computed and not  *)
(* assumed.  A timestamp is the text YYYY-MM-DD<sep>HH:MM:SS[Z]; it is     *)
(* kept as its three compared parts (date, separator, time of day).        *)
(***************************************************************************)
EXTENDS Integers, Sequences, FiniteSets, TLC

\* ------------------------------------------------------------------ bounds
\* Fresh ids handed out by randomUUID over one run.
MaxIds == 2
\* Rows of memory_history over one run.
MaxHist == 4
\* Clock readings: datetime('now') is observed at instants 0..MaxNow.
MaxNow == 2
\* Observed times of day per calendar day (the clock is sampled on a grid
\* coarser than one hour).
SlotsPerDay == 2
\* Items of a batch call.
MaxBatch == 2
\* Memories of the listing specification: one more than the default page.
MaxList == 11
MaxGraph == 3
MaxChain == 7

\* ------------------------------------------------------------------- text
UpperChars == <<"A", "B", "C", "D", "E", "G", "L", "N", "O", "R", "T">>
LowerChars == <<"a", "b", "c", "d", "e", "g", "l", "n", "o", "r", "t">>

IsSpace(c) == c = " "

\* String.prototype.toLowerCase on one character.
LowerChar(c) ==
  IF \E i \in 1..Len(UpperChars) : UpperChars[i] = c
  THEN LowerChars[CHOOSE i \in 1..Len(UpperChars) : UpperChars[i] = c]
  ELSE c

ToLowerCase(s) == [i \in 1..Len(s) |-> LowerChar(s[i])]

RECURSIVE TrimStart(_)
TrimStart(s) ==
  IF s # <<>> /\ IsSpace(Head(s)) THEN TrimStart(Tail(s)) ELSE s

RECURSIVE TrimEnd(_)
TrimEnd(s) ==
  IF s # <<>> /\ IsSpace(s[Len(s)]) THEN TrimEnd(SubSeq(s, 1, Len(s) - 1)) ELSE s

\* String.prototype.trim
Trim(s) == TrimEnd(TrimStart(s))

\* s.split(/\s+/).filter(Boolean): the maximal runs of non-space characters.
RECURSIVE SplitWs(_, _)
SplitWs(s, cur) ==
  IF s = <<>> THEN (IF cur = <<>> THEN <<>> ELSE <<cur>>)
  ELSE IF IsSpace(Head(s))
       THEN (IF cur = <<>> THEN <<>> ELSE <<cur>>) \o SplitWs(Tail(s), <<>>)
       ELSE SplitWs(Tail(s), Append(cur, Head(s)))

Words(s) == SplitWs(s, <<>>)

IsPrefix(p, s) == Len(p) <= Len(s) /\ SubSeq(s, 1, Len(p)) = p

SeqToSet(q) == {q[i] : i \in 1..Len(q)}

\* ------------------------------------------------------------- timestamps
\* NULL / undefined are the empty set, a present value v is {v}.
Null == {}
Some(v) == {v}
The(o) == CHOOSE v \in o : TRUE

\* Byte value of the separator character between date and time.
SepCode(sep) == IF sep = "T" THEN 84 ELSE 32

\* SQLite datetime('now'): 'YYYY-MM-DD HH:MM:SS' at clock reading n.
DatetimeNow(n) == [date |-> n \div SlotsPerDay, sep |-> " ", time |-> n % SlotsPerDay]

\* The ISO 8601 text 'YYYY-MM-DDTHH:MM:SSZ' of instant n (UTC).
IsoZ(n) == [date |-> n \div SlotsPerDay, sep |-> "T", time |-> n % SlotsPerDay]

\* The instant a timestamp text denotes.
Instant(ts) == ts.date * SlotsPerDay + ts.time

\* SQLite's comparison of two TEXT values (BINARY collation): byte by byte,
\* so date first, then the separator byte, then the time of day; an equal
\* prefix followed by the ISO text's trailing Z makes the ISO text greater.
TextLess(a, b) ==
  \/ a.date < b.date
  \/ a.date = b.date /\ SepCode(a.sep) < SepCode(b.sep)
  \/ a.date = b.date /\ a.sep = b.sep /\ a.time < b.time

TextLeq(a, b) == TextLess(a, b) \/ a = b

\* ------------------------------------------------------------- normalizers
General == <<"g", "e", "n", "e", "r", "a", "l">>
Code == <<"c", "o", "d", "e">>

\* normalizeCategory: (category ?? "general").trim().toLowerCase() || "general"
normalizeCategory(category) ==
  LET c == ToLowerCase(Trim(IF category = Null THEN General ELSE The(category)))
  IN  IF c = <<>> THEN General ELSE c

\* [...new Set(list)]: first occurrences, in order.
RECURSIVE Dedup(_, _)
Dedup(list, seen) ==
  IF list = <<>> THEN <<>>
  ELSE IF Head(list) \in seen THEN Dedup(Tail(list), seen)
       ELSE <<Head(list)>> \o Dedup(Tail(list), seen \cup {Head(list)})

\* normalizeTags: trim each, discard empty strings, deduplicate.
normalizeTags(tags) ==
  IF tags = Null THEN <<>>
  ELSE LET trimmed == [i \in 1..Len(The(tags)) |-> Trim(The(tags)[i])]
       IN  Dedup(SelectSeq(trimmed, LAMBDA t : t # <<>>), {})

\* A JavaScript value that is not a string (a number, undefined, an object):
\* calling .trim() on it throws a TypeError; better-sqlite3 refuses to bind it.
NaS == <<"#not-a-string">>
IsString(v) == v # NaS

\* ---------------------------------------------------------------- the store
\* memories   : rows of table memories (tags / metadata are the JSON texts
\*              written by JSON.stringify, kept as the array / object they
\*              encode; rowid is SQLite's implicit integer key)
\* links      : rows of table memory_links
\* history    : rows of table memory_history, in insertion order
\* hseq       : AUTOINCREMENT counter of memory_history (sqlite_sequence)
\* fts        : documents held by the FTS5 index memories_fts
\* now        : the wall clock read by datetime('now')
\* nextId     : number of ids randomUUID has produced
\* last       : the last call and its result
\* writes     : the row writes (INSERT / UPDATE / DELETE on memories) that the
\*              last call committed, in order, each with the row image
\* cascaded   : the rows of memory_links that ON DELETE CASCADE removed in the
\*              last call
\* undone     : the row writes that the last call made and then rolled back
VARIABLES memories, links, history, hseq, fts, now, nextId, last, writes, cascaded,
          undone, user_version, schema, stmtCache, pc

\* The database file's schema and version counter, the handle's statement
\* cache and the position of the process that holds the handle.
handle == <<user_version, schema, stmtCache, pc>>

vars ==
  <<memories, links, history, hseq, fts, now, nextId, last, writes, cascaded, undone,
    handle>>

\* The database as a call finds it; wlog collects the call's row writes.
Store ==
  [mem |-> memories, links |-> links, hist |-> history, hseq |-> hseq, fts |-> fts,
   wlog |-> <<>>, clog |-> {}, ulog |-> <<>>]

EmptyStore ==
  [mem |-> {}, links |-> {}, hist |-> <<>>, hseq |-> 0, fts |-> {}, wlog |-> <<>>,
   clog |-> {}, ulog |-> <<>>]

Commit(s) ==
  /\ memories' = s.mem
  /\ links' = s.links
  /\ history' = s.hist
  /\ hseq' = s.hseq
  /\ fts' = s.fts
  /\ writes' = s.wlog
  /\ cascaded' = s.clog
  /\ undone' = s.ulog

SetMax(S) == CHOOSE x \in S : \A y \in S : y <= x

\* rowid of a new row of a rowid table without AUTOINCREMENT: max(rowid)+1.
NextRowid(mem) == IF mem = {} THEN 1 ELSE SetMax({m.rowid : m \in mem}) + 1

HasId(s, id) == \E m \in s.mem : m.id = id
RowOf(s, id) == CHOOSE m \in s.mem : m.id = id

\* -------------------------------------------------------------- triggers
FtsDoc(row) ==
  [rowid |-> row.rowid, content |-> row.content, category |-> row.category, tags |-> row.tags]

\* memories_ai: INSERT INTO memories_fts(rowid, content, category, tags)
memories_ai(s, new) == [s EXCEPT !.fts = @ \cup {FtsDoc(new)}]

\* memories_ad: the FTS5 'delete' command with the old row's values
memories_ad(s, old) == [s EXCEPT !.fts = @ \ {FtsDoc(old)}]

\* Variant of memories_au that leaves the old values in the index.
InsertOnly(s, old, new) == memories_ai(s, new)

\* memories_au: 'delete' of the old values, then insert of the new ones
memories_au(s, old, new) == memories_ai(memories_ad(s, old), new)

HistoryRow(s, op, row, t) ==
  [history_id |-> s.hseq + 1, memory_id |-> row.id, operation |-> op,
   content |-> row.content, category |-> row.category, tags |-> row.tags,
   metadata |-> row.metadata, project |-> row.project,
   expires_at |-> row.expires_at, changed_at |-> DatetimeNow(t)]

AppendHistory(s, op, row, t) ==
  [s EXCEPT !.hist = Append(@, HistoryRow(s, op, row, t)), !.hseq = @ + 1]

\* memories_history_ai / _au / _ad
memories_history_ai(s, new, t) == AppendHistory(s, "create", new, t)
\* Variant of the update trigger that records OLD.* instead of NEW.*.
history_au_preimage(s, old, new, t) == AppendHistory(s, "update", old, t)
\* Variant of the update trigger that records the operation as a create.
history_au_as_create(s, old, new, t) == AppendHistory(s, "create", new, t)
memories_history_au(s, old, new, t) == AppendHistory(s, "update", new, t)
\* Variant of the delete trigger that also drops the earlier entries of the row.
history_ad_forget(s, old, t) ==
  AppendHistory([s EXCEPT !.hist = SelectSeq(@, LAMBDA e : e.memory_id # old.id)],
                "delete", old, t)
memories_history_ad(s, old, t) == AppendHistory(s, "delete", old, t)

\* ------------------------------------------------------- row statements
\* INSERT INTO memories ... (stmtCreate), with its AFTER INSERT triggers.
InsertRow(s, new, t) ==
  memories_history_ai(
    memories_ai([s EXCEPT !.mem = @ \cup {new},
                          !.wlog = Append(@, [op |-> "create", row |-> new])], new),
    new, t)

\* UPDATE of one row of memories, with its AFTER UPDATE triggers.
UpdateRow(s, old, new, t) ==
  memories_history_au(
    memories_au([s EXCEPT !.mem = (@ \ {old}) \cup {new},
                          !.wlog = Append(@, [op |-> "update", row |-> new])], old, new),
    old, new, t)

\* Variant of the cascade that follows from_id only.
CascadeFromOnly(lk, id) == {l \in lk : l.from_id # id}

\* memory_links.from_id / to_id REFERENCES memories(id) ON DELETE CASCADE
CascadeLinks(lk, id) == {l \in lk : l.from_id # id /\ l.to_id # id}

\* DELETE of one row of memories: cascade, then the AFTER DELETE triggers.
DeleteRow(s, old, t) ==
  memories_history_ad(
    memories_ad([s EXCEPT !.mem = @ \ {old}, !.links = CascadeLinks(@, old.id),
                          !.wlog = Append(@, [op |-> "delete", row |-> old]),
                          !.clog = @ \cup (s.links \ CascadeLinks(s.links, old.id))], old),
    old, t)

\* A statement over several rows visits them in rowid order.
RECURSIVE RowsByRowid(_)
RowsByRowid(rows) ==
  IF rows = {} THEN <<>>
  ELSE LET r == CHOOSE x \in rows : \A y \in rows : x.rowid <= y.rowid
       IN  <<r>> \o RowsByRowid(rows \ {r})

\* (expires_at IS NULL OR expires_at > datetime('now'))
EXPIRES_ALIVE(row, t) ==
  row.expires_at = Null \/ TextLess(DatetimeNow(t), The(row.expires_at))

\* ------------------------------------------------------------------ links
\* foreign_keys = ON: both endpoints must be rows of memories.
ForeignKeysOk(s, from_id, to_id) == HasId(s, from_id) /\ HasId(s, to_id)

\* Variant of the upsert that inserts without resolving the key conflict.
InsertLink(lk, row) == lk \cup {row}

\* stmtLinkUpsert: INSERT OR REPLACE INTO memory_links ... RETURNING *
\* REPLACE deletes the row holding the same primary key (from_id, to_id).
ReplaceLink(lk, row) ==
  {l \in lk : ~(l.from_id = row.from_id /\ l.to_id = row.to_id)} \cup {row}

LinkRow(from_id, to_id, relation, weight, auto_generated, t) ==
  [from_id |-> from_id, to_id |-> to_id, relation |-> relation, weight |-> weight,
   auto_generated |-> auto_generated, created_at |-> DatetimeNow(t)]

stmtLinkUpsert(s, from_id, to_id, relation, weight, auto_generated, t) ==
  IF ~ForeignKeysOk(s, from_id, to_id)
  THEN [s |-> s, err |-> TRUE]
  ELSE [s |-> [s EXCEPT !.links =
                 ReplaceLink(@, LinkRow(from_id, to_id, relation, weight, auto_generated, t))],
        err |-> FALSE]

\* stmtGetLink
HasLink(s, from_id, to_id) ==
  \E l \in s.links : l.from_id = from_id /\ l.to_id = to_id

\* ------------------------------------------------------- full-text search
\* The tokens the FTS5 tokenizer (unicode61) makes of a text: its runs of
\* letters, case-folded.  (Texts of the model hold letters and spaces only.)
Tokens(text) == {ToLowerCase(w) : w \in SeqToSet(Words(text))}

\* The tokens indexed for one document: columns content, category, tags.
DocTokens(doc) ==
  Tokens(doc.content) \cup Tokens(doc.category)
    \cup UNION {Tokens(doc.tags[i]) : i \in 1..Len(doc.tags)}

\* buildFtsQuery: null when the query has no term; otherwise the terms, each
\* a quoted prefix term "t"*, joined by OR (any) or by implicit AND (all).
buildFtsQuery(query, mode) ==
  LET terms == Words(query)
  IN  IF Len(terms) = 0 THEN Null ELSE Some([mode |-> mode, terms |-> terms])

\* One quoted prefix term "t"* against a document.
TermMatches(term, doc) ==
  \E tok \in DocTokens(doc) : IsPrefix(ToLowerCase(term), tok)

\* memories_fts MATCH ?
FtsMatch(doc, q) ==
  IF q.mode = "all"
  THEN \A i \in 1..Len(q.terms) : TermMatches(q.terms[i], doc)
  ELSE \E i \in 1..Len(q.terms) : TermMatches(q.terms[i], doc)

\* memories m JOIN memories_fts fts ON m.rowid = fts.rowid WHERE memories_fts MATCH ?
FtsJoin(s, q) ==
  {m \in s.mem : \E d \in s.fts : d.rowid = m.rowid /\ FtsMatch(d, q)}

\* ---------------------------------------------------------------- ordering
\* ORDER BY key ASC (ties in rowid order), as a sequence.
RECURSIVE OrderBy(_, _)
OrderBy(rows, key) ==
  IF rows = {} THEN <<>>
  ELSE LET r == CHOOSE x \in rows : \A y \in rows :
                  \/ key[x.id] < key[y.id]
                  \/ key[x.id] = key[y.id] /\ x.rowid <= y.rowid
       IN  <<r>> \o OrderBy(rows \ {r}, key)

\* LIMIT n
Limit(q, n) == SubSeq(q, 1, IF Len(q) < n THEN Len(q) ELSE n)

Min(a, b) == IF a < b THEN a ELSE b
Max(a, b) == IF a > b THEN a ELSE b
Abs(a) == IF a < 0 THEN -a ELSE a

\* --------------------------------------------------------------- auto-link
\* Weights are kept in hundredths (1.0 = 100); FTS5 ranks in tenths.
WeightOne == 100
AutoTagLimit == 10
AutoFtsLimit == 5
AutoTemporalLimit == 5
AutoTerms == 5
RankThreshold == -5
TemporalWeight == 40
TagWeightStep == 30

\* The ranks bm25 may give a candidate (tenths): above and below the threshold.
RankSamples == {-3, -20}

\* for (const r of rows) { if (!stmtGetLink.get(id, r.id)) stmtLinkUpsert.run(...) }
RECURSIVE LinkEach(_, _, _, _, _, _)
LinkEach(s, id, rows, relation, weight, t) ==
  IF rows = <<>> THEN s
  ELSE LET r == Head(rows)
           s1 == IF HasLink(s, id, r.id) THEN s
                 ELSE stmtLinkUpsert(s, id, r.id, relation, weight[r.id], 1, t).s
       IN  LinkEach(s1, id, Tail(rows), relation, weight, t)

\* Strategy A: shared tags (>= 2 in common)
AutoLinkTags(s, memory, t) ==
  LET mine == SeqToSet(memory.tags)
      shared == [m \in s.mem |-> Cardinality({i \in 1..Len(m.tags) : m.tags[i] \in mine})]
      cand == {m \in s.mem : /\ m.id # memory.id
                             /\ m.project = memory.project
                             /\ EXPIRES_ALIVE(m, t)
                             /\ shared[m] >= 2}
      key == [i \in {m.id : m \in cand} |-> -shared[RowOf(s, i)]]
      weight == [i \in {m.id : m \in cand} |->
                   Min(WeightOne, shared[RowOf(s, i)] * TagWeightStep)]
  IN  IF Len(memory.tags) >= 2
      THEN LinkEach(s, memory.id, Limit(OrderBy(cand, key), AutoTagLimit), "related", weight, t)
      ELSE s

\* Strategy B: FTS5 content similarity; rk gives each candidate's rank.
AutoLinkFts(s, memory, rk, t) ==
  LET terms == Limit(Words(memory.content), AutoTerms)
      q == [mode |-> "any", terms |-> terms]
      cand == {m \in FtsJoin(s, q) : /\ m.id # memory.id
                                     /\ m.project = memory.project
                                     /\ EXPIRES_ALIVE(m, t)}
      key == [i \in {m.id : m \in cand} |-> rk[i]]
      top == Limit(OrderBy(cand, key), AutoFtsLimit)
      hits == SelectSeq(top, LAMBDA r : rk[r.id] < RankThreshold)
      weight == [i \in {m.id : m \in cand} |-> Min(90, Max(10, Abs(rk[i])))]
  IN  IF Len(terms) >= 2
      THEN LinkEach(s, memory.id, hits, "references", weight, t)
      ELSE s

\* created_at BETWEEN datetime(c, '-1 hour') AND datetime(c, '+1 hour'): the
\* clock is sampled more than an hour apart, so only an equal reading lies
\* inside the window.
WithinHour(a, c) == a = c

\* Strategy C: temporal proximity +- 1 hour and same category
AutoLinkTemporal(s, memory, t) ==
  LET cand == {m \in s.mem : /\ m.id # memory.id
                             /\ m.project = memory.project
                             /\ m.category = memory.category
                             /\ WithinHour(m.created_at, memory.created_at)
                             /\ EXPIRES_ALIVE(m, t)}
      key == [i \in {m.id : m \in cand} |->
                Abs(Instant(RowOf(s, i).created_at) - Instant(memory.created_at))]
      weight == [i \in {m.id : m \in cand} |-> TemporalWeight]
  IN  LinkEach(s, memory.id, Limit(OrderBy(cand, key), AutoTemporalLimit), "related", weight, t)

autoLink(s, memory, rk, t) ==
  AutoLinkTemporal(AutoLinkFts(AutoLinkTags(s, memory, t), memory, rk, t), memory, t)

\* ------------------------------------------------------------ single rows
DefaultProject == "default"
EmptyMeta == {}

TagsThrow(tags) == tags # Null /\ \E i \in 1..Len(The(tags)) : ~IsString(The(tags)[i])

\* create(input): the new row gets the id randomUUID returns.
create(s, input, id, rk, t) ==
  IF ~IsString(input.content) \/ TagsThrow(input.tags)
  THEN [s |-> s, err |-> TRUE, ret |-> Null]
  ELSE LET row == [id |-> id,
                   rowid |-> NextRowid(s.mem),
                   content |-> Trim(input.content),
                   category |-> normalizeCategory(input.category),
                   tags |-> normalizeTags(input.tags),
                   metadata |-> IF input.metadata = Null THEN EmptyMeta ELSE The(input.metadata),
                   project |-> IF input.project = Null THEN DefaultProject ELSE The(input.project),
                   created_at |-> DatetimeNow(t),
                   updated_at |-> DatetimeNow(t),
                   expires_at |-> input.expires_at]
           s1 == InsertRow(s, row, t)
           s2 == IF input.auto_link # Some(FALSE) THEN autoLink(s1, row, rk, t) ELSE s1
       IN  [s |-> s2, err |-> FALSE, ret |-> Some(row)]

\* autoLink when a statement of the strategy `at` throws: the strategies
\* before it have written their links, the rest is not run.
AutoLinkStages == {"tags", "fts", "temporal", "none"}

autoLinkInterrupted(s, memory, rk, t, at) ==
  CASE at = "tags" -> [s |-> s, err |-> TRUE]
    [] at = "fts" -> [s |-> AutoLinkTags(s, memory, t), err |-> TRUE]
    [] at = "temporal" ->
         [s |-> AutoLinkFts(AutoLinkTags(s, memory, t), memory, rk, t), err |-> TRUE]
    [] OTHER -> [s |-> autoLink(s, memory, rk, t), err |-> FALSE]

\* Variant of create that lets an exception of autoLink reach the caller.
CreateRethrows(s, input, id, rk, t, at) ==
  LET r == create(s, [input EXCEPT !.auto_link = Some(FALSE)], id, rk, t)
      a == autoLinkInterrupted(r.s, The(r.ret), rk, t, at)
  IN  IF r.err \/ input.auto_link = Some(FALSE) THEN r
      ELSE [s |-> a.s, err |-> a.err, ret |-> IF a.err THEN Null ELSE r.ret]

\* create(input) with autoLink interrupted: the row is inserted as by create,
\* then try { autoLink(memory) } catch { } and return memory.
createInterrupted(s, input, id, rk, t, at) ==
  LET r == create(s, [input EXCEPT !.auto_link = Some(FALSE)], id, rk, t)
      a == autoLinkInterrupted(r.s, The(r.ret), rk, t, at)
  IN  IF r.err \/ input.auto_link = Some(FALSE) THEN r
      ELSE [s |-> a.s, err |-> FALSE, ret |-> r.ret]

\* getById(id): stmtGetById, SELECT * FROM memories WHERE id = ?
getById(s, id) == IF HasId(s, id) THEN Some(RowOf(s, id)) ELSE Null

\* stmtUpdate: UPDATE memories SET content, category, tags, metadata,
\* expires_at, updated_at = datetime('now') WHERE id = ? RETURNING *
stmtUpdate(s, old, content, category, tags, metadata, expires_at, t) ==
  LET new == [old EXCEPT !.content = content, !.category = category, !.tags = tags,
                         !.metadata = metadata, !.expires_at = expires_at,
                         !.updated_at = DatetimeNow(t)]
  IN  [s |-> UpdateRow(s, old, new, t), row |-> new]

\* Variant of update that clears expires_at when the input omits it.
UpdateClearsExpiry(s, id, input, t) ==
  IF ~HasId(s, id) THEN [s |-> s, err |-> FALSE, ret |-> Null]
  ELSE LET existing == RowOf(s, id)
           r == stmtUpdate(s, existing,
                  Trim(IF input.content = Null THEN existing.content ELSE The(input.content)),
                  IF input.category # Null THEN normalizeCategory(input.category)
                  ELSE existing.category,
                  IF input.tags # Null THEN normalizeTags(input.tags) ELSE existing.tags,
                  IF input.metadata = Null THEN existing.metadata ELSE The(input.metadata),
                  IF input.expires_at # Null THEN The(input.expires_at) ELSE Null,
                  t)
       IN  [s |-> r.s, err |-> FALSE, ret |-> Some(r.row)]

\* update(id, input): omitted fields keep the existing values.
update(s, id, input, t) ==
  IF ~HasId(s, id) THEN [s |-> s, err |-> FALSE, ret |-> Null]
  ELSE LET existing == RowOf(s, id)
       IN  IF (input.content # Null /\ ~IsString(The(input.content))) \/ TagsThrow(input.tags)
           THEN [s |-> s, err |-> TRUE, ret |-> Null]
           ELSE LET r == stmtUpdate(s, existing,
                           Trim(IF input.content = Null THEN existing.content
                                ELSE The(input.content)),
                           IF input.category # Null THEN normalizeCategory(input.category)
                           ELSE existing.category,
                           IF input.tags # Null THEN normalizeTags(input.tags)
                           ELSE existing.tags,
                           IF input.metadata = Null THEN existing.metadata
                           ELSE The(input.metadata),
                           IF input.expires_at # Null THEN The(input.expires_at)
                           ELSE existing.expires_at,
                           t)
                IN  [s |-> r.s, err |-> FALSE, ret |-> Some(r.row)]

\* An id better-sqlite3 cannot bind (undefined, an object): run() throws.
BadId == 0

\* stmtDelete: DELETE FROM memories WHERE id = ?
stmtDelete(s, id, t) ==
  IF id = BadId THEN [s |-> s, err |-> TRUE, changes |-> 0]
  ELSE IF HasId(s, id)
       THEN [s |-> DeleteRow(s, RowOf(s, id), t), err |-> FALSE, changes |-> 1]
       ELSE [s |-> s, err |-> FALSE, changes |-> 0]

\* ----------------------------------------------------------- transactions
\* db.transaction(fn)(args): BEGIN, run fn, COMMIT; if fn throws, ROLLBACK to
\* the state at BEGIN and rethrow.  r is fn's outcome on store s0.
\* Variant without the ROLLBACK: what fn did before it threw stays.
NoRollback(s0, r) == r

transaction(s0, r) == IF r.err THEN [r EXCEPT !.s = [s0 EXCEPT !.ulog = r.s.wlog]] ELSE r

\* items.map((input) => this.create(input)); the k-th new row gets id0 + k.
RECURSIVE CreateAll(_, _, _, _, _)
CreateAll(s, inputs, id0, rk, t) ==
  IF inputs = <<>> THEN [s |-> s, err |-> FALSE, ret |-> <<>>]
  ELSE LET r == create(s, Head(inputs), id0 + 1, rk, t)
       IN  IF r.err THEN [s |-> r.s, err |-> TRUE, ret |-> <<>>]
           ELSE LET rest == CreateAll(r.s, Tail(inputs), id0 + 1, rk, t)
                IN  [rest EXCEPT !.ret = <<The(r.ret)>> \o @]

createBatch(s, inputs, id0, rk, t) ==
  IF Len(inputs) = 0 THEN [s |-> s, err |-> FALSE, ret |-> <<>>]
  ELSE transaction(s, CreateAll(s, inputs, id0, rk, t))

\* Variant of the update loop in which an item is merged over the row as it
\* was before the earlier items for the same id.
RECURSIVE UpdateAllStale(_, _, _)
UpdateAllStale(s, items, t) ==
  IF items = <<>> THEN [s |-> s, err |-> FALSE, updated |-> <<>>, notFound |-> <<>>]
  ELSE LET r == update(s, Head(items).id, Head(items).input, t)
           again == \E i \in DOMAIN Tail(items) : Tail(items)[i].id = Head(items).id
       IN  IF r.err THEN [s |-> r.s, err |-> TRUE, updated |-> <<>>, notFound |-> <<>>]
           ELSE LET rest == UpdateAllStale(IF again THEN s ELSE r.s, Tail(items), t)
                IN  IF r.ret # Null
                    THEN [rest EXCEPT !.updated = <<The(r.ret)>> \o @]
                    ELSE [rest EXCEPT !.notFound = <<Head(items).id>> \o @]

\* for (const { id, ...input } of items) { update(id, input) ... }
RECURSIVE UpdateAll(_, _, _)
UpdateAll(s, items, t) ==
  IF items = <<>> THEN [s |-> s, err |-> FALSE, updated |-> <<>>, notFound |-> <<>>]
  ELSE LET r == update(s, Head(items).id, Head(items).input, t)
       IN  IF r.err THEN [s |-> r.s, err |-> TRUE, updated |-> <<>>, notFound |-> <<>>]
           ELSE LET rest == UpdateAll(r.s, Tail(items), t)
                IN  IF r.ret # Null
                    THEN [rest EXCEPT !.updated = <<The(r.ret)>> \o @]
                    ELSE [rest EXCEPT !.notFound = <<Head(items).id>> \o @]

updateBatch(s, items, t) ==
  IF Len(items) = 0 THEN [s |-> s, err |-> FALSE, updated |-> <<>>, notFound |-> <<>>]
  ELSE transaction(s, UpdateAll(s, items, t))

\* delete(id)
delete(s, id, t) == stmtDelete(s, id, t)

\* Variant of the delete loop that throws at the first id that deletes nothing.
RECURSIVE DeleteAllOrThrow(_, _, _)
DeleteAllOrThrow(s, ids, t) ==
  IF ids = <<>> THEN [s |-> s, err |-> FALSE, deleted |-> 0, notFound |-> <<>>]
  ELSE LET r == stmtDelete(s, Head(ids), t)
       IN  IF r.err \/ r.changes = 0
           THEN [s |-> r.s, err |-> TRUE, deleted |-> 0, notFound |-> <<>>]
           ELSE [DeleteAllOrThrow(r.s, Tail(ids), t) EXCEPT !.deleted = @ + 1]

\* for (const id of idList) { stmtDelete.run(id) ... }
RECURSIVE DeleteAll(_, _, _)
DeleteAll(s, ids, t) ==
  IF ids = <<>> THEN [s |-> s, err |-> FALSE, deleted |-> 0, notFound |-> <<>>]
  ELSE LET r == stmtDelete(s, Head(ids), t)
       IN  IF r.err THEN [s |-> r.s, err |-> TRUE, deleted |-> 0, notFound |-> <<>>]
           ELSE LET rest == DeleteAll(r.s, Tail(ids), t)
                IN  IF r.changes > 0
                    THEN [rest EXCEPT !.deleted = @ + 1]
                    ELSE [rest EXCEPT !.notFound = <<Head(ids)>> \o @]

deleteBatch(s, ids, t) ==
  IF Len(ids) = 0 THEN [s |-> s, err |-> FALSE, deleted |-> 0, notFound |-> <<>>]
  ELSE transaction(s, DeleteAll(s, ids, t))

\* The negation of (!row.content || !row.content.trim()): the row is not skipped.
NonBlank(row) ==
  row.content # Null /\ (IsString(The(row.content)) => Trim(The(row.content)) # <<>>)

\* importBatch's loop body over the rows; created counts the rows inserted.
RECURSIVE ImportAll(_, _, _, _, _, _)
ImportAll(s, rows, mode, id0, rk, t) ==
  IF rows = <<>>
  THEN [s |-> s, err |-> FALSE, ids |-> <<>>, skipped |-> 0, created |-> 0]
  ELSE LET row == Head(rows)
           fail == [s |-> s, err |-> TRUE, ids |-> <<>>, skipped |-> 0, created |-> 0]
       IN  IF row.content # Null /\ ~IsString(The(row.content)) THEN fail
           ELSE IF row.content = Null \/ Trim(The(row.content)) = <<>>
           THEN [ImportAll(s, Tail(rows), mode, id0, rk, t) EXCEPT !.skipped = @ + 1]
           ELSE IF mode = "upsert" /\ row.id # Null /\ getById(s, The(row.id)) # Null
           THEN LET r == update(s, The(row.id),
                           [content |-> row.content, category |-> row.category,
                            tags |-> row.tags, metadata |-> row.metadata,
                            expires_at |-> Null], t)
                IN  IF r.err THEN [fail EXCEPT !.s = r.s]
                    ELSE [ImportAll(r.s, Tail(rows), mode, id0, rk, t)
                            EXCEPT !.ids = <<The(r.ret).id>> \o @]
           ELSE LET r == create(s, [content |-> The(row.content), category |-> row.category,
                                    tags |-> row.tags, metadata |-> row.metadata,
                                    project |-> row.project, expires_at |-> Null,
                                    auto_link |-> Null], id0 + 1, rk, t)
                IN  IF r.err THEN [fail EXCEPT !.s = r.s]
                    ELSE [ImportAll(r.s, Tail(rows), mode, id0 + 1, rk, t)
                            EXCEPT !.ids = <<The(r.ret).id>> \o @, !.created = @ + 1]

\* Variant of importBatch that inserts every row in every mode.
ImportAlwaysInsert(s, rows, mode, id0, rk, t) ==
  IF Len(rows) = 0
  THEN [s |-> s, err |-> FALSE, ids |-> <<>>, skipped |-> 0, created |-> 0]
  ELSE transaction(s, ImportAll(s, rows, "insert", id0, rk, t))

\* Variant of importBatch that takes the upsert branch in every mode.
ImportAlwaysUpsert(s, rows, mode, id0, rk, t) ==
  IF Len(rows) = 0
  THEN [s |-> s, err |-> FALSE, ids |-> <<>>, skipped |-> 0, created |-> 0]
  ELSE transaction(s, ImportAll(s, rows, "upsert", id0, rk, t))

importBatch(s, rows, mode, id0, rk, t) ==
  IF Len(rows) = 0
  THEN [s |-> s, err |-> FALSE, ids |-> <<>>, skipped |-> 0, created |-> 0]
  ELSE transaction(s, ImportAll(s, rows, mode, id0, rk, t))

\* ------------------------------------------------------------ maintenance
RECURSIVE DeleteRows(_, _, _)
DeleteRows(s, rows, t) ==
  IF rows = <<>> THEN s ELSE DeleteRows(DeleteRow(s, Head(rows), t), Tail(rows), t)

\* stmtPurgeExpired's WHERE: expires_at IS NOT NULL AND expires_at <= datetime('now')
PurgeWhere(row, t) ==
  row.expires_at # Null /\ TextLeq(The(row.expires_at), DatetimeNow(t))

\* purgeExpired(): DELETE ... RETURNING id
purgeExpired(s, t) ==
  LET rows == RowsByRowid({m \in s.mem : PurgeWhere(m, t)})
  IN  [s |-> DeleteRows(s, rows, t), ids |-> [i \in 1..Len(rows) |-> rows[i].id],
       purged |-> Len(rows)]

\* ---------------------------------------------------------------- history
\* Variant of stmtHistoryEntry that selects by history_id alone.
EntryOfAnyMemory(s, history_id, memory_id) ==
  {s.hist[i] : i \in {j \in 1..Len(s.hist) : s.hist[j].history_id = history_id}}

\* stmtHistoryEntry: SELECT * FROM memory_history WHERE history_id = ? AND memory_id = ?
HistoryEntry(s, history_id, memory_id) ==
  {s.hist[i] : i \in {j \in 1..Len(s.hist) :
      s.hist[j].history_id = history_id /\ s.hist[j].memory_id = memory_id}}

\* Variant of restoreMemory that keeps the memory's current expires_at.
RestoreKeepExpiry(s, memory_id, history_id, t) ==
  IF ~HasId(s, memory_id) \/ HistoryEntry(s, history_id, memory_id) = {}
  THEN [s |-> s, ret |-> Null]
  ELSE LET h == The(HistoryEntry(s, history_id, memory_id))
           r == stmtUpdate(s, RowOf(s, memory_id), h.content, h.category, h.tags,
                           h.metadata, RowOf(s, memory_id).expires_at, t)
       IN  [s |-> r.s, ret |-> Some(r.row)]

\* restoreMemory({memory_id, history_id})
restoreMemory(s, memory_id, history_id, t) ==
  IF ~HasId(s, memory_id) \/ HistoryEntry(s, history_id, memory_id) = {}
  THEN [s |-> s, ret |-> Null]
  ELSE LET h == The(HistoryEntry(s, history_id, memory_id))
           r == stmtUpdate(s, RowOf(s, memory_id), h.content, h.category, h.tags,
                           h.metadata, h.expires_at, t)
       IN  [s |-> r.s, ret |-> Some(r.row)]

\* -------------------------------------------------------------------- tags
HasTag(row, tag) == \E i \in 1..Len(row.tags) : row.tags[i] = tag

\* An UPDATE over several rows; new maps each row to its new image.
RECURSIVE UpdateRows(_, _, _, _)
UpdateRows(s, rows, new, t) ==
  IF rows = <<>> THEN s
  ELSE UpdateRows(UpdateRow(s, Head(rows), new[Head(rows)], t), Tail(rows), new, t)

\* Variant of RenamedTags without DISTINCT.
RenamedTagsAll(tags, oldTag, newTag) ==
  [i \in 1..Len(tags) |-> IF tags[i] = oldTag THEN newTag ELSE tags[i]]

\* json_group_array(DISTINCT CASE WHEN value = old THEN new ELSE value END)
RenamedTags(tags, oldTag, newTag) ==
  Dedup([i \in 1..Len(tags) |-> IF tags[i] = oldTag THEN newTag ELSE tags[i]], {})

\* renameTag(oldTag, newTag, project)
renameTag(s, oldTag, newTag, project, t) ==
  LET proj == IF project = Null THEN DefaultProject ELSE The(project)
      rows == RowsByRowid({m \in s.mem : m.project = proj /\ HasTag(m, oldTag)})
      new == [m \in SeqToSet(rows) |->
                [m EXCEPT !.tags = RenamedTags(m.tags, oldTag, newTag),
                          !.updated_at = DatetimeNow(t)]]
  IN  [s |-> UpdateRows(s, rows, new, t), updated |-> Len(rows)]

\* migrateToProject({tag, project})
migrateToProject(s, tag, project, t) ==
  LET rows == RowsByRowid({m \in s.mem : HasTag(m, tag)})
      new == [m \in SeqToSet(rows) |->
                [m EXCEPT !.project = project, !.updated_at = DatetimeNow(t)]]
  IN  [s |-> UpdateRows(s, rows, new, t), updated |-> Len(rows)]

\* --------------------------------------------------------------- relations
\* linkMemories(input): defaults relation "related", weight 1.0, auto_generated 0
linkMemories(s, input, t) ==
  stmtLinkUpsert(s, input.from_id, input.to_id,
                 IF input.relation = Null THEN "related" ELSE The(input.relation),
                 IF input.weight = Null THEN WeightOne ELSE The(input.weight),
                 IF input.auto_generated = Null THEN 0 ELSE The(input.auto_generated), t)

\* updateLink: UPDATE memory_links SET relation = ? WHERE from_id = ? AND to_id = ?
updateLink(s, from_id, to_id, relation) ==
  [s |-> [s EXCEPT !.links =
            {IF l.from_id = from_id /\ l.to_id = to_id THEN [l EXCEPT !.relation = relation]
             ELSE l : l \in @}],
   found |-> HasLink(s, from_id, to_id)]

\* Variant of unlinkMemories that removes the link of the pair in both
\* directions.
UnlinkBothWays(s, from_id, to_id) ==
  [s |-> [s EXCEPT !.links = {l \in @ : {l.from_id, l.to_id} # {from_id, to_id}}],
   found |-> HasLink(s, from_id, to_id)]

\* unlinkMemories: DELETE FROM memory_links WHERE from_id = ? AND to_id = ?
unlinkMemories(s, from_id, to_id) ==
  [s |-> [s EXCEPT !.links = {l \in @ : ~(l.from_id = from_id /\ l.to_id = to_id)}],
   found |-> HasLink(s, from_id, to_id)]

\* ------------------------------------------------------------------ reads
\* ListMemoriesInput with every field omitted: listWithTotal({}).
NoFilter ==
  [category |-> Null, tag |-> Null, project |-> Null, metadata_key |-> Null,
   metadata_value |-> Null, sort_by |-> Null, limit |-> Null, offset |-> Null,
   created_after |-> Null, created_before |-> Null,
   updated_after |-> Null, updated_before |-> Null]

DefaultLimit == 10

\* (? IS NULL OR created_at >= ?) AND (? IS NULL OR created_at <= ?) AND ...
DATE_COND(row, input) ==
  /\ input.created_after = Null \/ TextLeq(The(input.created_after), row.created_at)
  /\ input.created_before = Null \/ TextLeq(row.created_at, The(input.created_before))
  /\ input.updated_after = Null \/ TextLeq(The(input.updated_after), row.updated_at)
  /\ input.updated_before = Null \/ TextLeq(row.updated_at, The(input.updated_before))

\* The WHERE clause shared by listWithTotal and searchWithTotal.
FilterWhere(row, input, t) ==
  /\ EXPIRES_ALIVE(row, t)
  /\ row.project = (IF input.project = Null THEN DefaultProject ELSE The(input.project))
  /\ (input.category = Null \/ Trim(The(input.category)) = <<>>
        \/ row.category = ToLowerCase(Trim(The(input.category))))
  /\ (input.tag = Null \/ The(input.tag) = <<>> \/ HasTag(row, The(input.tag)))
  /\ (input.metadata_key = Null \/ input.metadata_value = Null
        \/ <<The(input.metadata_key), The(input.metadata_value)>> \in row.metadata)
  /\ DATE_COND(row, input)

\* SORT_ORDERS as an ascending integer key over the rows of the store.
SortKey(s, sortBy) ==
  LET K == NextRowid(s.mem)
  IN  [i \in {m.id : m \in s.mem} |->
         LET m == RowOf(s, i)
         IN  IF sortBy = "created_at_asc" THEN Instant(m.created_at) * K + m.rowid
             ELSE IF sortBy = "updated_at_desc" THEN -(Instant(m.updated_at) * K + m.rowid)
             ELSE -(Instant(m.created_at) * K + m.rowid)]

\* ... LIMIT ? OFFSET ?
Page(q, limit, offset) ==
  SubSeq(q, offset + 1, IF Len(q) < offset + limit THEN Len(q) ELSE offset + limit)

\* Variant of listWithTotal whose default order is oldest first.
ListOldestFirst(s, input, t) ==
  LET rows == {m \in s.mem : FilterWhere(m, input, t)}
      sortBy == IF input.sort_by = Null THEN "created_at_asc" ELSE The(input.sort_by)
      page == Page(OrderBy(rows, SortKey(s, sortBy)),
                   IF input.limit = Null THEN DefaultLimit ELSE The(input.limit),
                   IF input.offset = Null THEN 0 ELSE The(input.offset))
  IN  [memories |-> page, total |-> IF Len(page) > 0 THEN Cardinality(rows) ELSE 0]

\* listWithTotal(input)
listWithTotal(s, input, t) ==
  LET rows == {m \in s.mem : FilterWhere(m, input, t)}
      sortBy == IF input.sort_by = Null THEN "created_at_desc" ELSE The(input.sort_by)
      page == Page(OrderBy(rows, SortKey(s, sortBy)),
                   IF input.limit = Null THEN DefaultLimit ELSE The(input.limit),
                   IF input.offset = Null THEN 0 ELSE The(input.offset))
  IN  [memories |-> page, total |-> IF Len(page) > 0 THEN Cardinality(rows) ELSE 0]

\* const limit = input.limit ?? 10_000
ExportLimit == 10000

\* Variant of exportAll that writes the id of the first exported row on every row.
ExportUnderFirstId(s, input, t) ==
  LET page == listWithTotal(s, [NoFilter EXCEPT !.category = input.category,
                                                !.tag = input.tag,
                                                !.project = input.project,
                                                !.limit = Some(IF input.limit = Null
                                                               THEN ExportLimit
                                                               ELSE The(input.limit)),
                                                !.offset = Some(0),
                                                !.sort_by = Some("created_at_asc")], t).memories
  IN  [i \in DOMAIN page |-> [page[i] EXCEPT !.id = page[1].id]]

\* exportAll(input): listWithTotal with a high ceiling, oldest first.
exportAll(s, input, t) ==
  listWithTotal(s, [NoFilter EXCEPT !.category = input.category,
                                    !.tag = input.tag,
                                    !.project = input.project,
                                    !.limit = Some(IF input.limit = Null THEN ExportLimit
                                                   ELSE The(input.limit)),
                                    !.offset = Some(0),
                                    !.sort_by = Some("created_at_asc")], t).memories

\* searchWithTotal(input): the rows the statement matches, before ORDER BY
\* rank LIMIT ? OFFSET ? picks the page among them.
SearchRows(s, query, mode, input, t) ==
  LET q == buildFtsQuery(query, mode)
  IN  IF q = Null THEN {}
      ELSE {m \in FtsJoin(s, The(q)) : FilterWhere(m, input, t)}

\* stmtSnapshot: rows of the project that are alive, with rn = recency rank
\* within the category; getContextSnapshot lists those with rn <= recentPerCategory.
getContextSnapshot(s, recentPerCategory, project, t) ==
  LET proj == IF project = Null THEN DefaultProject ELSE The(project)
      rows == {m \in s.mem : m.project = proj /\ EXPIRES_ALIVE(m, t)}
      key == SortKey(s, "created_at_desc")
      rn(m) == Cardinality({x \in rows : x.category = m.category /\ key[x.id] <= key[m.id]})
  IN  [total |-> Cardinality(rows),
       recent |-> {m \in rows : rn(m) <= recentPerCategory}]

\* getByIds(ids): SELECT * FROM memories WHERE id IN (...)
getByIds(s, ids) == {m \in s.mem : m.id \in ids}

\* getRelated({id, direction}): the memories joined through memory_links.
getRelated(s, id, direction) ==
  (IF direction \in {"from", "both"}
   THEN {m \in s.mem : \E l \in s.links : l.from_id = id /\ l.to_id = m.id} ELSE {})
  \cup
  (IF direction \in {"to", "both"}
   THEN {m \in s.mem : \E l \in s.links : l.to_id = id /\ l.from_id = m.id} ELSE {})

\* Variant of the recursive step without the test t.depth < ?.
RECURSIVE TraverseAnyDepth(_, _, _, _)
TraverseAnyDepth(s, frontier, depth, relation) ==
  IF frontier = {} THEN {}
  ELSE LET next == {[to_id |-> l.to_id, relation |-> l.relation, weight |-> l.weight,
                     auto_generated |-> l.auto_generated, depth |-> t.depth + 1,
                     path |-> Append(t.path, l.to_id)] :
                      <<l, t>> \in {<<l, t>> \in s.links \X frontier :
                         /\ l.from_id = t.to_id
                         /\ l.to_id \notin SeqToSet(t.path)
                         /\ (relation = Null \/ l.relation = The(relation))}}
       IN  frontier \cup TraverseAnyDepth(s, next, depth, relation)

\* The recursive CTE traverse of getRelatedDeep: one row per path of outgoing
\* links from the start node that visits no node twice, up to depth hops.
TraverseRow(l, depth, path) ==
  [to_id |-> l.to_id, relation |-> l.relation, weight |-> l.weight,
   auto_generated |-> l.auto_generated, depth |-> depth, path |-> path]

RelationFilter(l, relation) == relation = Null \/ l.relation = The(relation)

RECURSIVE Traverse(_, _, _, _)
Traverse(s, frontier, depth, relation) ==
  IF frontier = {} THEN {}
  ELSE LET next == {TraverseRow(l, t.depth + 1, Append(t.path, l.to_id)) :
                      <<l, t>> \in {<<l, t>> \in s.links \X frontier :
                         /\ l.from_id = t.to_id
                         /\ t.depth < depth
                         /\ l.to_id \notin SeqToSet(t.path)
                         /\ RelationFilter(l, relation)}}
       IN  frontier \cup Traverse(s, next, depth, relation)

DeepDefaultDepth == 3
DeepMaxDepth == 5
DeepDefaultLimit == 50

\* getRelatedDeep(input): per reached memory of the project its least depth
\* (via: the traverse rows of that depth, one of which supplies relation and
\* weight), by depth ascending, LIMIT limit (rows of equal depth in rowid
\* order here; SQLite leaves their order open).
getRelatedDeep(s, input) ==
  LET proj == IF input.project = Null THEN DefaultProject ELSE The(input.project)
      depth == Min(DeepMaxDepth,
                   Max(1, IF input.max_depth = Null THEN DeepDefaultDepth
                          ELSE The(input.max_depth)))
      limit == IF input.limit = Null THEN DeepDefaultLimit ELSE The(input.limit)
      anchor == {TraverseRow(l, 1, <<l.from_id, l.to_id>>) :
                   l \in {l \in s.links : l.from_id = input.id
                                            /\ RelationFilter(l, input.relation)}}
      traverse == Traverse(s, anchor, depth, input.relation)
      minDepth(id) == CHOOSE d \in {t.depth : t \in {t \in traverse : t.to_id = id}} :
                        \A t \in traverse : t.to_id = id => d <= t.depth
      reached == {m \in s.mem : m.project = proj /\ \E t \in traverse : t.to_id = m.id}
      key == [i \in {m.id : m \in s.mem} |->
                IF \E t \in traverse : t.to_id = i THEN minDepth(i) ELSE 0]
      page == Limit(OrderBy(reached, key), limit)
  IN  [i \in 1..Len(page) |->
         [memory |-> page[i], depth |-> minDepth(page[i].id),
          via |-> {t \in traverse : t.to_id = page[i].id /\ t.depth = minDepth(page[i].id)}]]

\* getHistory({memory_id, limit = 50, offset = 0}): stmtHistoryCount and
\* stmtHistoryRows, ORDER BY changed_at DESC, history_id DESC LIMIT ? OFFSET ?
HistoryDefaultLimit == 50

getHistory(s, input) ==
  LET rows == {s.hist[i] : i \in {j \in DOMAIN s.hist : s.hist[j].memory_id = input.memory_id}}
      before(e) == {x \in rows : \/ TextLess(e.changed_at, x.changed_at)
                                 \/ x.changed_at = e.changed_at /\ x.history_id > e.history_id}
      sorted == [k \in 1..Cardinality(rows) |->
                   CHOOSE e \in rows : Cardinality(before(e)) = k - 1]
  IN  [total |-> Cardinality(rows),
       entries |-> Page(sorted,
                        IF input.limit = Null THEN HistoryDefaultLimit ELSE The(input.limit),
                        IF input.offset = Null THEN 0 ELSE The(input.offset))]

\* getStats(project): SELECT category, COUNT(*) FROM memories WHERE project = ?
\* GROUP BY category, total the sum of the counts; the scalar aggregates
\* no_tags and no_meta over the same rows.
getStats(s, project) ==
  LET proj == IF project = Null THEN DefaultProject ELSE The(project)
      rows == {m \in s.mem : m.project = proj}
      by_category == [c \in {m.category : m \in rows} |->
                        Cardinality({m \in rows : m.category = c})]
      RECURSIVE Total(_)
      Total(cats) == IF cats = {} THEN 0
                     ELSE LET c == CHOOSE x \in cats : TRUE
                          IN  by_category[c] + Total(cats \ {c})
  IN  [total |-> Total(DOMAIN by_category),
       by_category |-> by_category,
       memories_without_tags |-> Cardinality({m \in rows : m.tags = <<>>}),
       memories_without_metadata |-> Cardinality({m \in rows : m.metadata = EmptyMeta})]

\* ------------------------------------------------------------ suggestLinks
SuggestDefaultLimit == 20
SuggestTargets == 5
SuggestPreview == 80

\* Array.prototype.slice(0, n): a negative n counts from the end.
Slice0(q, n) ==
  IF n >= 0 THEN Limit(q, n) ELSE Limit(q, Max(0, Len(q) + n))

\* Variant of ExistingPartners that looks at outgoing links only.
OutgoingPartners(s, id) == {l.to_id : l \in {x \in s.links : x.from_id = id}}

\* SELECT to_id FROM memory_links WHERE from_id = ? UNION
\* SELECT from_id FROM memory_links WHERE to_id = ?
ExistingPartners(s, id) ==
  {l.to_id : l \in {x \in s.links : x.from_id = id}}
    \cup {l.from_id : l \in {x \in s.links : x.to_id = id}}

\* for (const r of rows) { if (!existingIds.has(r.id) && !seen.has(key)) push }
\* seen holds the (from, to) pairs of the suggestions made so far.
RECURSIVE SuggestEach(_, _, _, _, _, _, _)
SuggestEach(acc, memory, rows, existingIds, relation, weight, reason) ==
  IF rows = <<>> THEN acc
  ELSE LET r == Head(rows)
           seen == {<<x.from_id, x.to_id>> : x \in SeqToSet(acc)}
           acc1 == IF r.id \notin existingIds /\ <<memory.id, r.id>> \notin seen
                   THEN Append(acc, [from_id |-> memory.id,
                                     to_id |-> r.id,
                                     to_content_preview |-> Limit(r.content, SuggestPreview),
                                     to_category |-> r.category,
                                     to_tags |-> r.tags,
                                     suggested_relation |-> relation,
                                     weight |-> weight[r.id],
                                     reason |-> reason])
                   ELSE acc
       IN  SuggestEach(acc1, memory, Tail(rows), existingIds, relation, weight, reason)

\* The body of the loop over targets: strategies A, B and C for one memory,
\* their candidates taken from the project proj.
SuggestFor(s, acc, memory, proj, rk, t) ==
  LET existingIds == ExistingPartners(s, memory.id)
      peers == {m \in s.mem : m.id # memory.id /\ m.project = proj /\ EXPIRES_ALIVE(m, t)}
      ids == {m.id : m \in peers}
      mine == SeqToSet(memory.tags)
      shared == [m \in s.mem |-> Cardinality({i \in 1..Len(m.tags) : m.tags[i] \in mine})]
      candA == {m \in peers : shared[m] >= 1}
      rowsA == Limit(OrderBy(candA, [i \in ids |-> -shared[RowOf(s, i)]]), AutoTagLimit)
      weightA == [i \in ids |-> Min(WeightOne, shared[RowOf(s, i)] * TagWeightStep)]
      accA == IF Len(memory.tags) >= 1
              THEN SuggestEach(acc, memory, rowsA, existingIds, "related", weightA,
                               "shared_tags")
              ELSE acc
      terms == Limit(Words(memory.content), AutoTerms)
      candB == peers \cap FtsJoin(s, [mode |-> "any", terms |-> terms])
      topB == Limit(OrderBy(candB, [i \in ids |-> rk[i]]), AutoFtsLimit)
      rowsB == SelectSeq(topB, LAMBDA r : rk[r.id] < RankThreshold)
      weightB == [i \in ids |-> Min(90, Max(10, Abs(rk[i])))]
      accB == IF Len(terms) >= 2
              THEN SuggestEach(accA, memory, rowsB, existingIds, "references", weightB,
                               "content_similarity")
              ELSE accA
      candC == {m \in peers : /\ m.category = memory.category
                              /\ WithinHour(m.created_at, memory.created_at)}
      rowsC == Limit(OrderBy(candC, [i \in ids |->
                        Abs(Instant(RowOf(s, i).created_at) - Instant(memory.created_at))]),
                     AutoTemporalLimit)
  IN  SuggestEach(accB, memory, rowsC, existingIds, "related",
                  [i \in ids |-> TemporalWeight], "temporal_proximity")

RECURSIVE SuggestAll(_, _, _, _, _, _)
SuggestAll(s, acc, targets, proj, rk, t) ==
  IF targets = <<>> THEN acc
  ELSE SuggestAll(s, SuggestFor(s, acc, Head(targets), proj, rk, t), Tail(targets),
                  proj, rk, t)

\* suggestLinks({id?, project?, limit = 20}): SELECT statements only.
suggestLinks(s, input, rk, t) ==
  LET proj == IF input.project = Null THEN DefaultProject ELSE The(input.project)
      limit == IF input.limit = Null THEN SuggestDefaultLimit ELSE The(input.limit)
      orphans == {m \in s.mem : /\ m.project = proj
                                /\ EXPIRES_ALIVE(m, t)
                                /\ ~\E l \in s.links : l.from_id = m.id \/ l.to_id = m.id}
      targets == IF input.id # Null
                 THEN IF HasId(s, The(input.id)) THEN <<RowOf(s, The(input.id))>> ELSE <<>>
                 ELSE Limit(OrderBy(orphans, [i \in {m.id : m \in orphans} |->
                                                 -Instant(RowOf(s, i).created_at)]),
                            SuggestTargets)
  IN  [s |-> s,
       ret |-> [analysed |-> Len(targets),
                suggestions |-> Slice0(SuggestAll(s, <<>>, targets, proj, rk, t), limit)]]

SuggestInput(id, project, limit) == [id |-> id, project |-> project, limit |-> limit]

\* ----------------------------------------------------------------- inputs
CA == <<"a">>
CB == <<"b">>
CAB == <<"a", " ", "b">>
CPadded == <<" ", "b", " ">>
TT == <<"t">>
TU == <<"u">>
Meta1 == {<<"k", "v">>}

Undefined == Null

\* A CreateMemoryInput with deduplicate: true.
Deduplicating(input) ==
  [f \in DOMAIN input \cup {"deduplicate"} |->
     IF f = "deduplicate" THEN Some(TRUE) ELSE input[f]]

\* LinkMemoriesInput without auto_generated.
LinkInput(from_id, to_id, relation, weight) ==
  [from_id |-> from_id, to_id |-> to_id, relation |-> relation, weight |-> weight,
   auto_generated |-> Undefined]

\* CreateMemoryInput { content } with every optional field omitted.
Plain(content) ==
  [content |-> content, category |-> Undefined, tags |-> Undefined, metadata |-> Undefined,
   project |-> Undefined, expires_at |-> Null, auto_link |-> Undefined]

\* An input whose content is not a string: create throws on content.trim().
BadCreateInput == Plain(NaS)

\* UpdateMemoryInput {} with every field omitted.
NoUpdate ==
  [content |-> Undefined, category |-> Undefined, tags |-> Undefined,
   metadata |-> Undefined, expires_at |-> Undefined]

BadUpdateInput == [NoUpdate EXCEPT !.content = Some(NaS)]

\* ImportMemoryRow { content } with every optional field omitted.
PlainRow(content) ==
  [id |-> Undefined, content |-> content, category |-> Undefined, tags |-> Undefined,
   metadata |-> Undefined, project |-> Undefined]

\* A row whose tags hold a value that is not a string: normalizeTags throws.
BadImportRow == [PlainRow(Some(CA)) EXCEPT !.tags = Some(<<NaS>>)]

Ids == 1..MaxIds

\* Sequences of 1..MaxBatch items of S.
Batches(S) == UNION {[1..n -> S] : n \in 1..MaxBatch}

Ranks == [Ids -> RankSamples]

\* getGraph(input): the edges whose two memories are of the project, and as
\* nodes the alive memories of the project, all of them with include_orphans,
\* else those whose id is an endpoint of an edge. The orders of the two lists
\* are not modelled.
getGraph(s, input, t) ==
  LET proj == IF input.project = Null THEN DefaultProject ELSE The(input.project)
      edgeRows == {l \in s.links :
                     /\ input.relation # Null =>
                          l.relation = The(input.relation)
                     /\ \E m1 \in s.mem : m1.id = l.from_id /\ m1.project = proj
                     /\ \E m2 \in s.mem : m2.id = l.to_id /\ m2.project = proj}
      edges == {[from_id |-> l.from_id, to_id |-> l.to_id, relation |-> l.relation] :
                  l \in edgeRows}
      linkedIds == {e.from_id : e \in edges} \cup {e.to_id : e \in edges}
      nodeRows == IF input.include_orphans = Some(TRUE)
                  THEN {m \in s.mem : m.project = proj /\ EXPIRES_ALIVE(m, t)}
                  ELSE {m \in s.mem : /\ m.id \in linkedIds
                                      /\ m.project = proj
                                      /\ EXPIRES_ALIVE(m, t)}
  IN  [node_count |-> Cardinality(nodeRows), edge_count |-> Cardinality(edges),
       nodes |-> nodeRows, edges |-> edges]

\* --------------------------------------------------------- statement cache
\* JavaScript truthiness of an optional string: undefined and "" are falsy.
Truthy(opt) == opt # Null /\ The(opt) # <<>>

\* const category = input.category ? input.category.trim().toLowerCase() : undefined
\* followed by the test if (category).
HasCategory(input) ==
  Truthy(input.category) /\ ToLowerCase(Trim(The(input.category))) # <<>>

\* const hasMeta = mk !== undefined && mv !== undefined
HasMeta(input) == input.metadata_key # Null /\ input.metadata_value # Null

\* `${category ? "c" : ""}${tag ? "t" : ""}${hasMeta ? "m" : ""}`
ShapeFlags(input) ==
  (IF HasCategory(input) THEN "c" ELSE "") \o (IF Truthy(input.tag) THEN "t" ELSE "")
    \o (IF HasMeta(input) THEN "m" ELSE "")

\* conds.join(" AND ")
RECURSIVE JoinAnd(_)
JoinAnd(conds) ==
  IF Len(conds) = 0 THEN ""
  ELSE IF Len(conds) = 1 THEN conds[1]
  ELSE conds[1] \o " AND " \o JoinAnd(Tail(conds))

DATE_COND_SQL(col) ==
  "(? IS NULL OR " \o col \o "created_at >= ?) AND (? IS NULL OR " \o col
    \o "created_at <= ?) AND (? IS NULL OR " \o col
    \o "updated_at >= ?) AND (? IS NULL OR " \o col \o "updated_at <= ?)"

\* The conditions both statements push, with the column prefix of each.
ShapeConds(input, col) ==
  (IF HasCategory(input) THEN <<col \o "category = ?">> ELSE <<>>)
    \o (IF Truthy(input.tag)
        THEN <<"EXISTS (SELECT 1 FROM json_each(" \o col \o "tags) WHERE json_each.value = ?)">>
        ELSE <<>>)
    \o (IF HasMeta(input)
        THEN <<"json_extract(" \o col \o "metadata, '$.' || ?) = ?">>
        ELSE <<>>)
    \o <<DATE_COND_SQL(col)>>

\* Variant of the key of listWithTotal that leaves the sort order out.
ListKeyUnsorted(input) == "list_" \o ShapeFlags(input)

\* listWithTotal: const fk = `list_..._${sortBy}`
ListKey(input) ==
  "list_" \o ShapeFlags(input) \o "_"
    \o (IF input.sort_by = Null THEN "created_at_desc" ELSE The(input.sort_by))

\* SORT_ORDERS[sortBy] ?? SORT_ORDERS.created_at_desc
ListOrder(sortBy) ==
  CASE sortBy = "created_at_asc" -> "ORDER BY created_at ASC,  rowid ASC"
    [] sortBy = "updated_at_desc" -> "ORDER BY updated_at DESC, rowid DESC"
    [] OTHER -> "ORDER BY created_at DESC, rowid DESC"

\* listWithTotal: the SQL text handed to getOrPrepare.
ListSql(input) ==
  "SELECT *, COUNT(*) OVER () AS total_count FROM memories WHERE "
    \o JoinAnd(<<"(expires_at IS NULL OR expires_at > datetime('now'))", "project = ?">>
                 \o ShapeConds(input, ""))
    \o " "
    \o ListOrder(IF input.sort_by = Null THEN "created_at_desc" ELSE The(input.sort_by))
    \o " LIMIT ? OFFSET ?"

\* searchWithTotal: const fk = `search_...${sortKey ? `_${sortKey}` : ""}`
SearchKey(input) ==
  "search_" \o ShapeFlags(input)
    \o (IF input.sort_by = Null \/ input.sort_by = Some("") THEN ""
        ELSE "_" \o The(input.sort_by))

\* SEARCH_SORT_ORDERS[sortKey] ?? "ORDER BY rank"
SearchOrder(sortKey) ==
  CASE sortKey = "created_at_desc" -> "ORDER BY m.created_at DESC, m.rowid DESC"
    [] sortKey = "created_at_asc" -> "ORDER BY m.created_at ASC,  m.rowid ASC"
    [] sortKey = "updated_at_desc" -> "ORDER BY m.updated_at DESC, m.rowid DESC"
    [] OTHER -> "ORDER BY rank"

\* searchWithTotal: the SQL text handed to getOrPrepare.
SearchSql(input) ==
  "SELECT m.*, COUNT(*) OVER () AS total_count FROM memories m JOIN memories_fts fts ON m.rowid = fts.rowid WHERE memories_fts MATCH ? AND m.project = ? AND (m.expires_at IS NULL OR m.expires_at > datetime('now'))"
    \o " AND " \o JoinAnd(ShapeConds(input, "m."))
    \o " "
    \o SearchOrder(IF input.sort_by = Null THEN "" ELSE The(input.sort_by))
    \o " LIMIT ? OFFSET ?"

\* getOrPrepare(key, sql): the cached statement of the key, compiled from sql
\* on first use; a statement is the text it was compiled from.
getOrPrepare(cache, key, sql) ==
  IF \E e \in cache : e.key = key
  THEN [cache |-> cache, stmt |-> (CHOOSE e \in cache : e.key = key).sql, hit |-> TRUE]
  ELSE [cache |-> cache \cup {[key |-> key, sql |-> sql]}, stmt |-> sql, hit |-> FALSE]

\* ------------------------------------------------------- schema, migrations
\* The schema is the set of the objects the file holds: tables, the columns
\* that migrations add (table.column), indexes and triggers; a history trigger
\* whose body writes the project column carries the mark trigger.project.
SchemaVersion == 5

HistoryTriggers == {"memories_history_ai", "memories_history_au", "memories_history_ad"}

\* db.exec(SCHEMA_SQL): every statement is CREATE ... IF NOT EXISTS.
SCHEMA_SQL(sc) ==
  sc \cup (IF "memories" \in sc THEN {}
           ELSE {"memories", "memories.project", "memories.expires_at"})
     \cup {"memories_fts", "memories_ai", "memories_ad", "memories_au",
           "idx_memories_category", "idx_memories_created_at"}
     \cup (IF "memory_links" \in sc THEN {}
           ELSE {"memory_links", "memory_links.weight", "memory_links.auto_generated"})
     \cup {"idx_memory_links_to"}
     \cup (IF "memory_history" \in sc THEN {}
           ELSE {"memory_history", "memory_history.project"})
     \cup {"idx_memory_history_memory_id"}
     \cup UNION {IF t \in sc THEN {} ELSE {t, t \o ".project"} : t \in HistoryTriggers}

\* The body of the block if (dbVersion < k) of initialize, without the pragma.
Migration(k, sc) ==
  CASE k = 1 -> sc \cup {"memories.expires_at", "idx_memories_expires_at"}
    [] k = 2 -> sc \cup {"memory_links", "idx_memory_links_to"}
    [] k = 3 -> sc \cup {"memory_history", "idx_memory_history_memory_id"}
                   \cup HistoryTriggers
    [] k = 4 -> sc \cup {"memories.project", "idx_memories_project",
                         "idx_memories_project_category", "memory_history.project"}
                   \cup HistoryTriggers
                   \cup {t \o ".project" : t \in HistoryTriggers}
    [] k = 5 -> sc \cup {"memory_links.weight", "memory_links.auto_generated",
                         "idx_memory_links_auto"}

\* Variant that runs every block whatever version was read.
DueAlways(dbVersion, k) == TRUE

\* if (dbVersion < k)
Due(dbVersion, k) == dbVersion < k

\* The file a release with schema version v leaves behind.
RECURSIVE SchemaAt(_)
SchemaAt(v) ==
  IF v = 0
  THEN {"memories", "memories_fts", "memories_ai", "memories_ad", "memories_au",
        "idx_memories_category", "idx_memories_created_at"}
  ELSE Migration(v, SchemaAt(v - 1))

\* Position of the process: closed, in initialize before the block
\* if (dbVersion < k), or ready; steps are the blocks this open has run.
At(at, k, dbVersion, steps) ==
  [at |-> at, k |-> k, dbVersion |-> dbVersion, steps |-> steps]

Ready == At("ready", 0, SchemaVersion, <<>>)

\* ---------------------------------------------------------------- actions
Call(op, id, hid, ok, err, ids) ==
  [op |-> op, id |-> id, hid |-> hid, ok |-> ok, err |-> err, ids |-> ids]

Within(s) == Len(s.hist) <= MaxHist

Init ==
  /\ memories = {}
  /\ links = {}
  /\ history = <<>>
  /\ hseq = 0
  /\ fts = {}
  /\ now = 0
  /\ nextId = 0
  /\ last = Call("open", 0, 0, TRUE, FALSE, <<>>)
  /\ writes = <<>>
  /\ cascaded = {}
  /\ undone = <<>>
  /\ user_version = SchemaVersion
  /\ schema = SchemaAt(SchemaVersion)
  /\ stmtCache = {}
  /\ pc = Ready

\* The wall clock advances.
Tick ==
  /\ now < MaxNow
  /\ now' = now + 1
  /\ last' = Call("tick", 0, 0, TRUE, FALSE, <<>>)
  /\ writes' = <<>>
  /\ cascaded' = {}
  /\ undone' = <<>>
  /\ UNCHANGED <<memories, links, history, hseq, fts, nextId, handle>>

\* create with auto_link: false, which consults no FTS rank.
CreateUnlinked(inputs, maxIds) ==
  \E input \in {i \in inputs : i.auto_link = Some(FALSE)} :
    LET r == create(Store, input, nextId + 1, [i \in Ids |-> 0], now)
    IN  /\ nextId < maxIds
        /\ Len(r.s.hist) <= maxIds + MaxHist
        /\ Commit(r.s)
        /\ nextId' = nextId + 1
        /\ last' = Call("create", nextId + 1, 0, ~r.err, r.err, <<>>)
        /\ UNCHANGED <<now, handle>>

\* ContentField of the tool schemas: z.string().min(1).max(10_000); the texts
\* of the model are all shorter than the maximum.
ContentField(content) == IsString(content) /\ Len(content) >= 1

\* The save_memory tool: the schema validates the arguments, then the
\* handler calls db.create.
SaveMemory(inputs) ==
  \E input \in inputs, rk \in Ranks :
    IF ~ContentField(input.content)
    THEN /\ last' = Call("save_memory", 0, 0, FALSE, TRUE, <<>>)
         /\ writes' = <<>> /\ cascaded' = {} /\ undone' = <<>>
         /\ UNCHANGED <<memories, links, history, hseq, fts, now, nextId, handle>>
    ELSE LET r == create(Store, input, nextId + 1, rk, now)
         IN  /\ nextId < MaxIds
             /\ Within(r.s)
             /\ Commit(r.s)
             /\ nextId' = nextId + 1
             /\ last' = Call("save_memory", nextId + 1, 0, ~r.err, r.err, <<>>)
             /\ UNCHANGED <<now, handle>>

Create(inputs) ==
  \E input \in inputs, rk \in Ranks :
    LET r == create(Store, input, nextId + 1, rk, now)
    IN  /\ nextId < MaxIds
        /\ Within(r.s)
        /\ Commit(r.s)
        /\ nextId' = nextId + 1
        /\ last' = Call("create", nextId + 1, 0, ~r.err, r.err, <<>>)
        /\ UNCHANGED <<now, handle>>

\* create during which autoLink throws at `at` (or not at all).
CreateInterrupted(inputs) ==
  \E input \in inputs, rk \in Ranks, at \in AutoLinkStages :
    /\ nextId < MaxIds
    /\ LET r == createInterrupted(Store, input, nextId + 1, rk, now, at)
       IN  /\ Within(r.s)
           /\ Commit(r.s)
           /\ nextId' = nextId + 1
           /\ last' = [op |-> "create", id |-> nextId + 1, hid |-> 0, ok |-> ~r.err,
                        err |-> r.err, ids |-> <<>>, input |-> input, at |-> at,
                        ret |-> r.ret]
           /\ UNCHANGED <<now, handle>>

SuggestLinks(inputs) ==
  \E input \in inputs, rk \in Ranks :
    LET r == suggestLinks(Store, input, rk, now)
    IN  /\ Commit(r.s)
        /\ last' = [op |-> "suggestLinks", id |-> 0, hid |-> 0, ok |-> TRUE, err |-> FALSE,
                     ids |-> <<>>, input |-> input, ret |-> r.ret]
        /\ UNCHANGED <<now, nextId, handle>>

RELATION_TYPES == {"caused", "references", "supersedes", "related"}

\* The link_memories tool: rejects equal endpoints and endpoints that are not
\* stored, then calls db.linkMemories({from_id, to_id, relation}).
LinkMemoriesTool(ids) ==
  \E from_id \in ids, to_id \in ids, relation \in RELATION_TYPES :
    LET rejected == from_id = to_id \/ getById(Store, from_id) = Null
                      \/ getById(Store, to_id) = Null
        r == IF rejected THEN [s |-> Store, err |-> TRUE]
             ELSE linkMemories(Store, LinkInput(from_id, to_id, Some(relation), Undefined), now)
    IN  /\ Commit(r.s)
        /\ last' = Call("link_memories", from_id, 0, ~r.err, r.err, <<to_id>>)
        /\ UNCHANGED <<now, nextId, handle>>

\* The update_link tool: rejects equal endpoints, then calls db.updateLink and
\* reports an error when it returns null.
UpdateLinkTool(ids) ==
  \E from_id \in ids, to_id \in ids, relation \in RELATION_TYPES :
    LET r == IF from_id = to_id THEN [s |-> Store, found |-> FALSE]
             ELSE updateLink(Store, from_id, to_id, relation)
    IN  /\ Commit(r.s)
        /\ last' = Call("update_link", from_id, 0, r.found, ~r.found, <<to_id>>)
        /\ UNCHANGED <<now, nextId, handle>>

\* The command-line command link <from_id> <to_id> [--relation r]: calls
\* db.linkMemories({from_id, to_id, relation}) with the two arguments.
LinkCommand(ids) ==
  \E fromId \in ids, toId \in ids, relation \in RELATION_TYPES :
    LET r == linkMemories(Store, LinkInput(fromId, toId, Some(relation), Undefined), now)
    IN  /\ Commit(r.s)
        /\ last' = Call("link", fromId, 0, ~r.err, r.err, <<toId>>)
        /\ UNCHANGED <<now, nextId, handle>>

Update(inputs) ==
  \E id \in Ids, input \in inputs :
    LET r == update(Store, id, input, now)
    IN  /\ Within(r.s)
        /\ Commit(r.s)
        /\ last' = [op |-> "update", id |-> id, hid |-> 0, ok |-> r.ret # Null,
                     err |-> r.err, ids |-> <<>>, input |-> input]
        /\ UNCHANGED <<now, nextId, handle>>

Delete ==
  \E id \in Ids :
    LET r == delete(Store, id, now)
    IN  /\ Within(r.s)
        /\ Commit(r.s)
        /\ last' = Call("delete", id, 0, r.changes > 0, r.err, <<>>)
        /\ UNCHANGED <<now, nextId, handle>>

CreateBatch(inputs) ==
  \E batch \in Batches(inputs), rk \in Ranks :
    LET r == createBatch(Store, batch, nextId, rk, now)
    IN  /\ nextId + Len(batch) <= MaxIds
        /\ Within(r.s)
        /\ Commit(r.s)
        /\ nextId' = nextId + Len(r.ret)
        /\ last' = Call("createBatch", 0, 0, ~r.err, r.err,
                        [i \in 1..Len(r.ret) |-> r.ret[i].id])
        /\ UNCHANGED <<now, handle>>

UpdateBatch(inputs) ==
  \E items \in Batches([id : Ids, input : inputs]) :
    LET r == updateBatch(Store, items, now)
    IN  /\ Within(r.s)
        /\ Commit(r.s)
        /\ last' = [op |-> "updateBatch", id |-> 0, hid |-> 0, ok |-> ~r.err, err |-> r.err,
                     ids |-> [i \in 1..Len(r.updated) |-> r.updated[i].id],
                     input |-> items, notFound |-> r.notFound]
        /\ UNCHANGED <<now, nextId, handle>>

DeleteBatch(idset) ==
  \E ids \in Batches(idset) :
    LET r == deleteBatch(Store, ids, now)
    IN  /\ Within(r.s)
        /\ Commit(r.s)
        /\ last' = [op |-> "deleteBatch", id |-> 0, hid |-> 0, ok |-> ~r.err, err |-> r.err,
                     ids |-> r.notFound, input |-> ids, deleted |-> r.deleted]
        /\ UNCHANGED <<now, nextId, handle>>

ImportBatch(rowset, modes) ==
  \E rows \in Batches(rowset), mode \in modes :
    /\ nextId + Cardinality({j \in DOMAIN rows :
                               /\ NonBlank(rows[j])
                               /\ \/ mode = "insert"
                                  \/ rows[j].id = Null
                                  \/ ~HasId(Store, The(rows[j].id))}) <= MaxIds
    /\ \E rk \in Ranks :
         LET r == importBatch(Store, rows, mode, nextId, rk, now)
         IN  /\ Within(r.s)
             /\ Commit(r.s)
             /\ nextId' = nextId + r.created
             /\ last' = [op |-> "importBatch", id |-> 0, hid |-> 0, ok |-> ~r.err,
                          err |-> r.err, ids |-> r.ids, input |-> rows, mode |-> mode,
                          imported |-> Len(r.ids), skipped |-> r.skipped]
             /\ UNCHANGED <<now, handle>>

\* importBatch(exportAll(), "upsert"): the exported Memory objects are the rows.
ExportImport ==
  \E rk \in Ranks :
    LET page == exportAll(Store, [category |-> Undefined, tag |-> Undefined,
                                  project |-> Undefined, limit |-> Undefined], now)
        rows == [i \in DOMAIN page |->
                   [id |-> Some(page[i].id), content |-> Some(page[i].content),
                    category |-> Some(page[i].category), tags |-> Some(page[i].tags),
                    metadata |-> Some(page[i].metadata), project |-> Some(page[i].project)]]
        r == importBatch(Store, rows, "upsert", nextId, rk, now)
    IN  /\ nextId + Cardinality({j \in DOMAIN rows :
                                   NonBlank(rows[j]) /\ ~HasId(Store, The(rows[j].id))})
              <= MaxIds
        /\ Within(r.s)
        /\ Commit(r.s)
        /\ nextId' = nextId + r.created
        /\ last' = [op |-> "exportImport", id |-> 0, hid |-> 0, ok |-> ~r.err, err |-> r.err,
                     ids |-> r.ids, input |-> rows, mode |-> "upsert",
                     imported |-> Len(r.ids), skipped |-> r.skipped]
        /\ UNCHANGED <<now, handle>>

PurgeExpired ==
  LET r == purgeExpired(Store, now)
  IN  /\ Within(r.s)
      /\ Commit(r.s)
      /\ last' = Call("purgeExpired", 0, 0, TRUE, FALSE, r.ids)
      /\ UNCHANGED <<now, nextId, handle>>

RestoreMemory ==
  \E id \in Ids, hid \in 1..MaxHist :
    LET r == restoreMemory(Store, id, hid, now)
    IN  /\ Within(r.s)
        /\ Commit(r.s)
        /\ last' = Call("restoreMemory", id, hid, r.ret # Null, FALSE, <<>>)
        /\ UNCHANGED <<now, nextId, handle>>

RenameTag(tags, projects) ==
  \E oldTag \in tags, newTag \in tags, project \in projects :
    LET r == renameTag(Store, oldTag, newTag, project, now)
    IN  /\ Within(r.s)
        /\ Commit(r.s)
        /\ last' = [op |-> "renameTag", id |-> 0, hid |-> 0, ok |-> r.updated > 0,
                     err |-> FALSE, ids |-> <<oldTag, newTag>>, project |-> project,
                     updated |-> r.updated]
        /\ UNCHANGED <<now, nextId, handle>>

MigrateToProject(tags, projects) ==
  \E tag \in tags, project \in projects :
    LET r == migrateToProject(Store, tag, project, now)
    IN  /\ Within(r.s)
        /\ Commit(r.s)
        /\ last' = Call("migrateToProject", 0, 0, r.updated > 0, FALSE, <<>>)
        /\ UNCHANGED <<now, nextId, handle>>

LinkMemories(inputs) ==
  \E input \in inputs :
    LET r == linkMemories(Store, input, now)
    IN  /\ Commit(r.s)
        /\ last' = [op |-> "linkMemories", id |-> input.from_id, hid |-> 0, ok |-> ~r.err,
                     err |-> r.err, ids |-> <<input.to_id>>, input |-> input,
                     prior |-> {l \in links : l.from_id = input.from_id
                                                /\ l.to_id = input.to_id}]
        /\ UNCHANGED <<now, nextId, handle>>

UpdateLink(relations) ==
  \E from_id \in Ids, to_id \in Ids, relation \in relations :
    LET r == updateLink(Store, from_id, to_id, relation)
    IN  /\ Commit(r.s)
        /\ last' = [op |-> "updateLink", id |-> from_id, hid |-> 0, ok |-> r.found,
                     err |-> FALSE, ids |-> <<to_id>>, relation |-> relation]
        /\ UNCHANGED <<now, nextId, handle>>

UnlinkMemories ==
  \E from_id \in Ids, to_id \in Ids :
    LET r == unlinkMemories(Store, from_id, to_id)
    IN  /\ Commit(r.s)
        /\ last' = Call("unlinkMemories", from_id, 0, r.found, FALSE, <<to_id>>)
        /\ UNCHANGED <<now, nextId, handle>>

\* ------------------------------------------------------- specifications
\* Spec: the row operations (create, update, delete, restore, renameTag,
\* migrateToProject, importBatch, purgeExpired) at one clock reading.
CoreCreates ==
  { Plain(CA),
    [Plain(CAB) EXCEPT !.category = Some(<<"C", "o", "d", "e">>), !.tags = Some(<<TT, TU>>),
                       !.metadata = Some(Meta1), !.expires_at = Some(DatetimeNow(0))],
    [Plain(CPadded) EXCEPT !.tags = Some(<<<<" ", "t">>, TT, <<>>>>),
                           !.project = Some("other"), !.expires_at = Some(IsoZ(0)),
                           !.auto_link = Some(FALSE)] }

CoreUpdates ==
  { [NoUpdate EXCEPT !.content = Some(CB)],
    [NoUpdate EXCEPT !.category = Some(Code), !.tags = Some(<<TU, TU>>),
                     !.metadata = Some(Meta1), !.expires_at = Some(Null)] }

CoreRows ==
  { [PlainRow(Some(CB)) EXCEPT !.tags = Some(<<TT>>)],
    [PlainRow(Some(CAB)) EXCEPT !.id = Some(1), !.category = Some(Code),
                                !.project = Some("other")] }

Next ==
  \/ Create(CoreCreates)
  \/ Update(CoreUpdates)
  \/ Delete
  \/ RestoreMemory
  \/ RenameTag({TT, TU}, {Undefined})
  \/ MigrateToProject({TT}, {"other"})
  \/ ImportBatch(CoreRows, {"insert", "upsert"})
  \/ PurgeExpired

Spec == Init /\ [][Next]_vars

\* SpecLinks: creating, linking and removing memories.
LinkInputs ==
  {LinkInput(f, t, Undefined, Undefined) : f \in Ids, t \in Ids}
  \cup {LinkInput(f, t, Some("caused"), Some(50)) : f \in Ids, t \in Ids}

LinkCreates ==
  { [Plain(CA) EXCEPT !.auto_link = Some(FALSE)],
    [Plain(CA) EXCEPT !.tags = Some(<<TT>>)],
    [Plain(CB) EXCEPT !.expires_at = Some(DatetimeNow(0)), !.auto_link = Some(FALSE)] }

NextLinks ==
  \/ Create(LinkCreates)
  \/ Delete
  \/ DeleteBatch(Ids)
  \/ PurgeExpired
  \/ LinkMemories(LinkInputs)
  \/ UpdateLink({"references"})
  \/ UnlinkMemories

SpecLinks == Init /\ [][NextLinks]_vars

\* SpecBatch: the four batch operations, with items that make them throw.
BatchCreates == {Plain(CA), [Plain(CAB) EXCEPT !.tags = Some(<<TT>>)], BadCreateInput}

BatchUpdates == {[NoUpdate EXCEPT !.content = Some(CB)], BadUpdateInput}

BatchRows ==
  { [PlainRow(Some(CB)) EXCEPT !.id = Some(1)],
    PlainRow(Some(CA)),
    BadImportRow }

NextBatch ==
  \/ CreateBatch(BatchCreates)
  \/ UpdateBatch(BatchUpdates)
  \/ DeleteBatch(Ids \cup {BadId})
  \/ ImportBatch(BatchRows, {"insert", "upsert"})
  \/ LinkMemories({LinkInput(f, t, Undefined, Undefined) : f \in Ids, t \in Ids})

SpecBatch == Init /\ [][NextBatch]_vars

\* SpecTtl: memories with ISO 8601 expiry times while the clock advances.
TtlCreates ==
  {Plain(CA), [Plain(CA) EXCEPT !.project = Some("other")]}
  \cup {[Plain(CB) EXCEPT !.expires_at = Some(IsoZ(k))] : k \in {0, MaxNow}}

TtlUpdates == {[NoUpdate EXCEPT !.expires_at = Some(Some(IsoZ(1)))]}

NextTtl ==
  \/ Tick
  \/ Create(TtlCreates)
  \/ Update(TtlUpdates)
  \/ PurgeExpired
  \/ LinkMemories({LinkInput(1, 2, Undefined, Undefined)})

SpecTtl == Init /\ [][NextTtl]_vars

\* SpecList: more memories than one default page of listWithTotal holds, in
\* two projects, some with an expiry time.
ListCreates ==
  { [Plain(CA) EXCEPT !.auto_link = Some(FALSE)],
    [Plain(CA) EXCEPT !.auto_link = Some(FALSE), !.project = Some("other")],
    [Plain(CA) EXCEPT !.auto_link = Some(FALSE), !.expires_at = Some(IsoZ(0))] }

NextList ==
  \/ CreateUnlinked(ListCreates, MaxList)

SpecList == Init /\ [][NextList]_vars

\* SpecContent: contents with and without text, through the save_memory tool
\* and through update.
NextContent ==
  \/ SaveMemory({Plain(<<>>), Plain(<<" ">>), Plain(CPadded), Plain(CA),
                 [Plain(CAB) EXCEPT !.tags = Some(<<TT>>)]})
  \/ Update({[NoUpdate EXCEPT !.content = Some(<<" ">>)],
             [NoUpdate EXCEPT !.content = Some(CPadded)],
             [NoUpdate EXCEPT !.tags = Some(<<TU>>)]})
  \/ Delete

SpecContent == Init /\ [][NextContent]_vars

\* SpecTags: the operations that write tags; the new names given to renameTag
\* are texts the rename_tag tool accepts (z.string().min(1)).
NextTags ==
  \/ Create(CoreCreates)
  \/ Update(CoreUpdates)
  \/ ImportBatch(CoreRows, {"insert", "upsert"})
  \/ RenameTag({TT, TU, <<" ">>}, {Undefined, Some("other")})
  \/ RestoreMemory

SpecTags == Init /\ [][NextTags]_vars

\* SpecUpdate: updates of every field, one at a time, several at once and
\* none, while the clock advances.
NextUpdate ==
  \/ Tick
  \/ Create(CoreCreates)
  \/ Update({ NoUpdate,
              [NoUpdate EXCEPT !.content = Some(CPadded)],
              [NoUpdate EXCEPT !.category = Some(<<" ", "C", "o", "d", "e">>),
                               !.tags = Some(<<TU, <<" ", "u">>, <<>>, TT>>)],
              [NoUpdate EXCEPT !.metadata = Some({})],
              [NoUpdate EXCEPT !.expires_at = Some(Null)],
              [NoUpdate EXCEPT !.expires_at = Some(Some(IsoZ(1)))] })

SpecUpdate == Init /\ [][NextUpdate]_vars

\* SpecOrder: batches whose items name the same memory more than once.
NextOrder ==
  \/ Create({Plain(CA)})
  \/ Delete
  \/ UpdateBatch({ [NoUpdate EXCEPT !.content = Some(CB)],
                   [NoUpdate EXCEPT !.tags = Some(<<TT>>)],
                   [NoUpdate EXCEPT !.content = Some(CPadded), !.category = Some(Code)] })
  \/ ImportBatch({ PlainRow(Some(CA)),
                   [PlainRow(Some(CB)) EXCEPT !.id = Some(1)],
                   [PlainRow(Some(CAB)) EXCEPT !.id = Some(2), !.tags = Some(<<TT>>)] },
                 {"upsert"})

SpecOrder == Init /\ [][NextOrder]_vars

\* SpecImport: imports in both modes of rows without id, with the id of a
\* memory that is stored or was deleted, and with blank content; imports of
\* what exportAll returns, from stores that also hold memories of another
\* project and memories with empty content.
NextImport ==
  \/ Create({Plain(CA), [Plain(CAB) EXCEPT !.tags = Some(<<TT>>)]})
  \/ Update({[NoUpdate EXCEPT !.content = Some(<<" ">>)]})
  \/ Delete
  \/ ExportImport
  \/ ImportBatch({ [PlainRow(Some(CB)) EXCEPT !.tags = Some(<<TT>>)],
                   [PlainRow(Some(CPadded)) EXCEPT !.id = Some(1), !.category = Some(Code),
                                                   !.project = Some("other")],
                   [PlainRow(Some(<<" ">>)) EXCEPT !.id = Some(1)] },
                 {"insert", "upsert"})

SpecImport == Init /\ [][NextImport]_vars

\* SpecGraph: link graphs over MaxGraph memories of two projects, with links
\* of two relations, links in both directions and a link from a memory to
\* itself (linkMemories accepts equal endpoints).
NextGraph ==
  \/ CreateUnlinked({ [Plain(CA) EXCEPT !.auto_link = Some(FALSE)],
                      [Plain(CA) EXCEPT !.auto_link = Some(FALSE),
                                        !.project = Some("other")] }, MaxGraph)
  \/ LinkMemories({LinkInput(f, t, Undefined, Undefined) :
                     <<f, t>> \in {p \in (1..MaxGraph) \X (1..MaxGraph) :
                                     p[1] # p[2] \/ p[1] = 1}}
                  \cup {LinkInput(f, f + 1, Some("caused"), Undefined) :
                          f \in 1..(MaxGraph - 1)})

SpecGraph == Init /\ [][NextGraph]_vars

\* SpecChain: a chain of MaxChain memories, long enough to pass the greatest
\* depth, closed into a cycle, with a link back and a link from a memory to
\* itself.
NextChain ==
  \/ CreateUnlinked({[Plain(CA) EXCEPT !.auto_link = Some(FALSE)]}, MaxChain)
  \/ LinkMemories({LinkInput(f, f + 1, Undefined, Undefined) : f \in 1..(MaxChain - 1)}
                  \cup {LinkInput(MaxChain, 1, Undefined, Undefined),
                        LinkInput(2, 1, Undefined, Undefined),
                        LinkInput(1, 1, Undefined, Undefined)})

SpecChain == Init /\ [][NextChain]_vars

\* SpecAuto: creates during which link inference throws, before a strategy
\* or not at all, among peers that qualify under one or several strategies,
\* creates with deduplicate: true, and manual links without a weight and with
\* a weight outside 0.0 .. 1.0.
NextAuto ==
  \/ CreateInterrupted({ Plain(CA),
                         [Plain(CAB) EXCEPT !.tags = Some(<<TT, TU>>)],
                         [Plain(CB) EXCEPT !.category = Some(Code)],
                         [Plain(CAB) EXCEPT !.auto_link = Some(FALSE)],
                         Deduplicating(Plain(CPadded)) })
  \/ Delete
  \/ LinkMemories({ LinkInput(1, 2, Undefined, Undefined),
                    LinkInput(1, 2, Undefined, Some(WeightOne + 50)),
                    LinkInput(2, 1, Undefined, Some(-50)) })
  \/ SuggestLinks({ SuggestInput(Undefined, Undefined, Undefined),
                    SuggestInput(Some(1), Undefined, Undefined),
                    SuggestInput(Some(2), Undefined, Some(1)),
                    SuggestInput(Undefined, Some("other"), Some(-1)) })

SpecAuto == Init /\ [][NextAuto]_vars

\* SpecEntry: the entry points a caller reaches links through: the tools
\* link_memories and update_link and the command-line command link.
NextEntry ==
  \/ CreateUnlinked({[Plain(CA) EXCEPT !.auto_link = Some(FALSE)]}, MaxIds)
  \/ LinkMemoriesTool(Ids)
  \/ UpdateLinkTool(Ids)
  \/ LinkCommand(Ids)

SpecEntry == Init /\ [][NextEntry]_vars

\* ------------------------------------------------------------ open, close
\* new MemoryDatabase(path): the constructor opens the file and initialize
\* runs the pragmas and SCHEMA_SQL and reads user_version once.
Open ==
  /\ pc.at \in {"closed", "ended"}
  /\ schema' = SCHEMA_SQL(schema)
  /\ pc' = At("initialize", 1, user_version, <<>>)
  /\ stmtCache' = {}
  /\ last' = Call("open", 0, 0, TRUE, FALSE, <<>>)
  /\ writes' = <<>>
  /\ cascaded' = {}
  /\ undone' = <<>>
  /\ UNCHANGED <<memories, links, history, hseq, fts, now, nextId, user_version>>

\* One block if (dbVersion < k) { ...; user_version = k } of initialize;
\* after the fifth the constructor prepares the fixed statements and returns.
Initialize ==
  /\ pc.at = "initialize"
  /\ LET k == pc.k
         due == Due(pc.dbVersion, k)
     IN  /\ schema' = IF due THEN Migration(k, schema) ELSE schema
         /\ user_version' = IF due THEN k ELSE user_version
         /\ pc' = At(IF k = SchemaVersion THEN "ready" ELSE "initialize",
                     IF k = SchemaVersion THEN 0 ELSE k + 1, pc.dbVersion,
                     IF due THEN Append(pc.steps, k) ELSE pc.steps)
  /\ last' = Call("initialize", 0, 0, TRUE, FALSE, <<>>)
  /\ writes' = <<>>
  /\ cascaded' = {}
  /\ undone' = <<>>
  /\ UNCHANGED <<memories, links, history, hseq, fts, now, nextId, stmtCache>>

\* The process dies inside the constructor; the file keeps what was written.
Crash ==
  /\ pc.at = "initialize"
  /\ pc' = At("closed", 0, 0, <<>>)
  /\ last' = Call("crash", 0, 0, FALSE, TRUE, <<>>)
  /\ writes' = <<>>
  /\ cascaded' = {}
  /\ undone' = <<>>
  /\ UNCHANGED <<memories, links, history, hseq, fts, now, nextId, user_version,
                 schema, stmtCache>>

\* close(): pragma optimize, then the handle is closed. The caller is a user
\* of the class, the finally block of the command-line program, or the
\* server's shutdown handler.
Close ==
  /\ pc.at \in {"ready", "finally", "shutdown"}
  /\ pc' = At("closed", 0, 0, <<>>)
  /\ stmtCache' = {}
  /\ last' = Call("close", 0, 0, TRUE, FALSE, <<>>)
  /\ writes' = <<>>
  /\ cascaded' = {}
  /\ undone' = <<>>
  /\ UNCHANGED <<memories, links, history, hseq, fts, now, nextId, user_version,
                 schema>>

\* The process is gone; closed tells whether close() had been called.
Terminated(by) ==
  [op |-> "exit", id |-> 0, hid |-> 0, ok |-> TRUE, err |-> FALSE, ids |-> <<>>,
   by |-> by, closed |-> pc.at = "closed"]

\* The command-line program, inside try { switch (command) ... }: the command
\* runs to its break or throws, and control enters the finally block; or the
\* command calls process.exit, which ends the process where it stands.
CliCommand ==
  \E outcome \in {"break", "throw", "process.exit"} :
    /\ pc.at = "ready"
    /\ pc' = At(IF outcome = "process.exit" THEN "ended" ELSE "finally", 0, 0, <<>>)
    /\ last' = IF outcome = "process.exit" THEN Terminated(outcome)
               ELSE Call("command", 0, 0, outcome = "break", outcome = "throw", <<>>)
    /\ writes' = <<>>
    /\ cascaded' = {}
    /\ undone' = <<>>
    /\ UNCHANGED <<memories, links, history, hseq, fts, now, nextId, user_version,
                   schema, stmtCache>>

\* main of the server: purgeExpired, then connect, then the handlers of
\* SIGINT and SIGTERM are installed; if connect rejects, main().catch logs
\* the error and nothing keeps the process alive.
ServerMain ==
  \E outcome \in {"serving", "throw"} :
    LET r == purgeExpired(Store, now)
    IN  /\ pc.at = "ready"
        /\ Within(r.s)
        /\ Commit(r.s)
        /\ pc' = At(IF outcome = "serving" THEN "serving" ELSE "ended", 0, 0, <<>>)
        /\ last' = IF outcome = "serving" THEN Call("purgeExpired", 0, 0, TRUE, FALSE, r.ids)
                   ELSE Terminated("catch")
        /\ UNCHANGED <<now, nextId, user_version, schema, stmtCache>>

\* SIGINT or SIGTERM: the server's handler, once installed, runs shutdown;
\* without a handler the signal ends the process.
Signal ==
  /\ pc.at \in {"ready", "finally", "serving"}
  /\ pc' = At(IF pc.at = "serving" THEN "shutdown" ELSE "ended", 0, 0, <<>>)
  /\ last' = IF pc.at = "serving" THEN Call("signal", 0, 0, TRUE, FALSE, <<>>)
             ELSE Terminated("signal")
  /\ writes' = <<>>
  /\ cascaded' = {}
  /\ undone' = <<>>
  /\ UNCHANGED <<memories, links, history, hseq, fts, now, nextId, user_version,
                 schema, stmtCache>>

\* After close(): main returns, main().catch calls process.exit(1), or
\* shutdown calls process.exit(0).
ProcessEnds ==
  /\ pc.at = "closed"
  /\ pc' = At("ended", 0, 0, <<>>)
  /\ last' = Terminated("return")
  /\ writes' = <<>>
  /\ cascaded' = {}
  /\ undone' = <<>>
  /\ UNCHANGED <<memories, links, history, hseq, fts, now, nextId, user_version,
                 schema, stmtCache>>

\* listWithTotal(input) on an open handle: the statement comes from the
\* cache; the call reads and writes no row.
ListWithTotal(inputs) ==
  \E input \in inputs :
    LET g == getOrPrepare(stmtCache, ListKey(input), ListSql(input))
    IN  /\ pc.at = "ready"
        /\ stmtCache' = g.cache
        /\ last' = [op |-> "listWithTotal", id |-> 0, hid |-> 0, ok |-> TRUE,
                    err |-> FALSE, ids |-> <<>>, input |-> input, stmt |-> g.stmt,
                    hit |-> g.hit]
        /\ writes' = <<>>
        /\ cascaded' = {}
        /\ undone' = <<>>
        /\ UNCHANGED <<memories, links, history, hseq, fts, now, nextId, user_version,
                       schema, pc>>

\* searchWithTotal(input) with a query that has a term.
SearchWithTotal(inputs) ==
  \E input \in inputs :
    LET g == getOrPrepare(stmtCache, SearchKey(input), SearchSql(input))
    IN  /\ pc.at = "ready"
        /\ stmtCache' = g.cache
        /\ last' = [op |-> "searchWithTotal", id |-> 0, hid |-> 0, ok |-> TRUE,
                    err |-> FALSE, ids |-> <<>>, input |-> input, stmt |-> g.stmt,
                    hit |-> g.hit]
        /\ writes' = <<>>
        /\ cascaded' = {}
        /\ undone' = <<>>
        /\ UNCHANGED <<memories, links, history, hseq, fts, now, nextId, user_version,
                       schema, pc>>

\* The files an earlier release leaves behind: a file that does not exist yet,
\* or the schema of version v, empty or with one memory; the history table
\* exists from version 3 on.
InitOpen ==
  \E v \in 0..SchemaVersion, fresh \in BOOLEAN, filled \in BOOLEAN :
    LET s == IF filled
             THEN create(EmptyStore, [Plain(CA) EXCEPT !.auto_link = Some(FALSE)], 1,
                         [i \in Ids |-> 0], 0).s
             ELSE EmptyStore
    IN  /\ fresh => v = 0 /\ ~filled
        /\ user_version = v
        /\ schema = IF fresh THEN {} ELSE SchemaAt(v)
        /\ memories = s.mem
        /\ links = {}
        /\ history = IF v >= 3 THEN s.hist ELSE <<>>
        /\ hseq = IF v >= 3 THEN s.hseq ELSE 0
        /\ fts = s.fts
        /\ now = 0
        /\ nextId = Cardinality(s.mem)
        /\ last = Call("file", 0, 0, TRUE, FALSE, <<>>)
        /\ writes = <<>>
        /\ cascaded = {}
        /\ undone = <<>>
        /\ stmtCache = {}
        /\ pc = At("closed", 0, 0, <<>>)

\* SpecOpen: files of every schema version are opened, used and closed.
NextOpen ==
  \/ Open
  \/ Initialize
  \/ Crash
  \/ pc.at = "ready" /\ Close
  \/ pc.at = "ready" /\ CreateUnlinked({[Plain(CB) EXCEPT !.auto_link = Some(FALSE)]}, MaxIds)
  \/ pc.at = "ready" /\ Delete

SpecOpen == InitOpen /\ [][NextOpen]_vars

\* SpecCache: list and search calls of several filter shapes, and of several
\* values within a shape, share one handle's statement cache; closing and
\* reopening starts an empty cache.
CacheLists ==
  { NoFilter,
    [NoFilter EXCEPT !.project = Some("other"), !.limit = Some(1)],
    [NoFilter EXCEPT !.category = Some(Code)],
    [NoFilter EXCEPT !.category = Some(General)],
    [NoFilter EXCEPT !.category = Some(<<" ">>)],
    [NoFilter EXCEPT !.tag = Some(TT)],
    [NoFilter EXCEPT !.tag = Some(TT), !.sort_by = Some("created_at_asc")],
    [NoFilter EXCEPT !.tag = Some(TU), !.sort_by = Some("created_at_asc")],
    [NoFilter EXCEPT !.metadata_key = Some("k")],
    [NoFilter EXCEPT !.metadata_key = Some("k"), !.metadata_value = Some("v")],
    [NoFilter EXCEPT !.sort_by = Some("unknown")] }

CacheSearches ==
  { NoFilter,
    [NoFilter EXCEPT !.category = Some(Code), !.offset = Some(1)],
    [NoFilter EXCEPT !.category = Some(General)],
    [NoFilter EXCEPT !.sort_by = Some("")],
    [NoFilter EXCEPT !.sort_by = Some("created_at_desc")],
    [NoFilter EXCEPT !.tag = Some(TT), !.metadata_key = Some("k"),
                     !.metadata_value = Some("v")],
    [NoFilter EXCEPT !.tag = Some(<<>>)] }

NextCache ==
  \/ ListWithTotal(CacheLists)
  \/ SearchWithTotal(CacheSearches)
  \/ pc.at = "ready" /\ Close
  \/ Open
  \/ Initialize

SpecCache == Init /\ [][NextCache]_vars

\* SpecProcess: the command-line program and the server hold the handle
\* from construction to the end of the process; commands write rows, and the
\* process ends by return, process.exit, an exception or a signal.
NextProcess ==
  \/ Open
  \/ Initialize
  \/ CliCommand
  \/ ServerMain
  \/ Signal
  \/ pc.at \in {"finally", "shutdown"} /\ Close
  \/ ProcessEnds
  \/ /\ pc.at \in {"ready", "serving"}
     /\ CreateUnlinked({ [Plain(CA) EXCEPT !.auto_link = Some(FALSE)],
                         [Plain(CB) EXCEPT !.expires_at = Some(DatetimeNow(0)),
                                           !.auto_link = Some(FALSE)] }, MaxIds)
  \/ pc.at \in {"ready", "serving"} /\ Delete

SpecProcess == Init /\ [][NextProcess]_vars

\* SpecHistory: files of every schema version, with and without a memory
\* that predates the history table, are opened and written to: creates,
\* updates, deletes, restores and upsert imports that name a memory by id,
\* stored or removed.
NextHistory ==
  \/ Open
  \/ Initialize
  \/ pc.at = "ready" /\ CreateUnlinked({[Plain(CB) EXCEPT !.auto_link = Some(FALSE)]}, MaxIds)
  \/ pc.at = "ready" /\ Update({[NoUpdate EXCEPT !.content = Some(CAB)]})
  \/ pc.at = "ready" /\ Delete
  \/ pc.at = "ready" /\ RestoreMemory
  \/ pc.at = "ready" /\ ImportBatch({[PlainRow(Some(CA)) EXCEPT !.id = Some(1)]}, {"upsert"})

SpecHistory == InitOpen /\ [][NextHistory]_vars

\* ================================================================= claims
\* The fields a history entry snapshots.
Snapshot(x) ==
  [content |-> x.content, category |-> x.category, tags |-> x.tags,
   metadata |-> x.metadata, project |-> x.project, expires_at |-> x.expires_at]

\* C1: every call appends to memory_history exactly one entry per row write
\* it commits, in order: for that memory, with operation create / update /
\* delete, and with the snapshot of the row after the write (of the row
\* before it for a delete); earlier entries are untouched.
C1_OneEntryPerWrite ==
  [][ /\ Len(history') = Len(history) + Len(writes')
      /\ SubSeq(history', 1, Len(history)) = history
      /\ \A i \in 1..Len(writes') :
           LET h == history'[Len(history) + i]
               w == writes'[i]
           IN  /\ h.memory_id = w.row.id
               /\ h.operation = w.op
               /\ Snapshot(h) = Snapshot(w.row)
               /\ (w.op = "delete") = (w.row \in memories /\ ~HasId([mem |-> memories'], w.row.id))
               /\ (w.op # "delete") => (w.row \in memories' \/ \E j \in (i + 1)..Len(writes') :
                                          writes'[j].row.id = w.row.id) ]_vars

\* A purge has just deleted a row that had been created and updated before.
C1_Witness ==
  /\ last.op = "purgeExpired"
  /\ Len(writes) >= 1
  /\ \E i, j, k \in 1..Len(history) :
       /\ i < j /\ j < k
       /\ history[i].operation = "create"
       /\ history[j].operation = "update"
       /\ history[k].operation = "delete"
       /\ history[i].memory_id = history[k].memory_id
       /\ history[j].memory_id = history[k].memory_id

\* C2: a step of delete, deleteBatch or purgeExpired removes, together with
\* the memories it removes, exactly the links that have one of them as from_id
\* or to_id; after every step both endpoints of every stored link are
\* existing memories, and a linkMemories call naming a missing endpoint fails
\* and stores nothing.
Removed == {m.id : m \in memories} \ {m.id : m \in memories'}

C2_LinkCascade ==
  [][ /\ \A l \in links' : \E m \in memories' : m.id = l.from_id
      /\ \A l \in links' : \E m \in memories' : m.id = l.to_id
      /\ last'.op \in {"delete", "deleteBatch", "purgeExpired"} =>
            links' = {l \in links : l.from_id \notin Removed /\ l.to_id \notin Removed}
      /\ (last'.op = "linkMemories" /\
           ~({last'.id, last'.ids[1]} \subseteq {m.id : m \in memories})) =>
            (last'.err /\ links' = links) ]_vars

\* A delete has removed one memory and links in both directions with it,
\* while a link between surviving endpoints was kept.
C2_Witness ==
  /\ last.op = "delete" /\ last.ok
  /\ \E l \in cascaded : l.from_id = last.id /\ l.to_id # last.id
  /\ \E l \in cascaded : l.to_id = last.id /\ l.from_id # last.id
  /\ links # {}

\* C3: when createBatch, updateBatch, deleteBatch or importBatch raises an
\* error on one of its items, the memories, the links, the history entries and
\* the full-text index are exactly as before the call, whatever the items
\* before the failing one had written.
BatchOps == {"createBatch", "updateBatch", "deleteBatch", "importBatch"}

C3_BatchAtomic ==
  [][ (last'.op \in BatchOps /\ last'.err) =>
        /\ memories' = memories
        /\ links' = links
        /\ history' = history
        /\ fts' = fts ]_vars

\* A deleteBatch failed after it had deleted a linked memory: the memory and
\* its link are there.
C3_Witness ==
  /\ last.op = "deleteBatch" /\ last.err
  /\ Len(undone) >= 1 /\ undone[1].op = "delete"
  /\ undone[1].row \in memories
  /\ \E l \in links : l.from_id = undone[1].row.id \/ l.to_id = undone[1].row.id

\* C4: in every state reached by create, update, delete, renameTag,
\* restoreMemory, migrateToProject, importBatch and purgeExpired the full-text
\* index holds exactly one document per memory row, with the row's current
\* content, category and tags; a search of the memory's project for a term
\* finds a memory that is alive iff the term matches its current values.
SearchTerms == {<<"a">>, <<"b">>, <<"t">>, <<"u">>, <<"c">>, <<"g">>}

InProject(m) == [NoFilter EXCEPT !.project = Some(m.project)]

C4_FtsMirror ==
  /\ fts = {FtsDoc(m) : m \in memories}
  /\ Cardinality(fts) = Cardinality(memories)
  /\ \A m \in memories, term \in SearchTerms :
       EXPIRES_ALIVE(m, now) =>
         ((m \in SearchRows(Store, term, "any", InProject(m), now))
            <=> TermMatches(term, FtsDoc(m)))

\* A memory created with content "a" has been updated to content "b": a
\* search for "b" finds it and a search for "a" does not.
C4_Witness ==
  /\ last.op = "update" /\ last.ok
  /\ \E m \in memories :
       /\ m.id = last.id
       /\ m.content = CB
       /\ \E i \in 1..Len(history) :
            history[i].memory_id = m.id /\ history[i].content = CA
       /\ m \in SearchRows(Store, CB, "any", InProject(m), now)
       /\ m \notin SearchRows(Store, CA, "any", InProject(m), now)

\* C5: after every step no two links have the same (from_id, to_id); a
\* successful linkMemories leaves every link of another pair, the reverse
\* pair included, as it was, stores for its pair one link with the supplied
\* relation and weight (defaults "related" and 1.0), and does not change the
\* number of links when the pair had a link already.
C5_OneLinkPerPair ==
  [][ /\ \A l1, l2 \in links' :
           (l1.from_id = l2.from_id /\ l1.to_id = l2.to_id) => l1 = l2
      /\ (last'.op = "linkMemories" /\ ~last'.err) =>
           LET i == last'.input
               OfPair(l) == l.from_id = i.from_id /\ l.to_id = i.to_id
           IN  /\ {l \in links' : ~OfPair(l)} = {l \in links : ~OfPair(l)}
               /\ \E l \in links' :
                    /\ OfPair(l)
                    /\ l.relation = (IF i.relation = Null THEN "related" ELSE The(i.relation))
                    /\ l.weight = (IF i.weight = Null THEN WeightOne ELSE The(i.weight))
               /\ (\E l \in links : OfPair(l)) =>
                    Cardinality(links') = Cardinality(links) ]_vars

\* linkMemories has replaced the relation and weight of an existing link
\* while the reverse link keeps its own relation and weight.
C5_Witness ==
  /\ last.op = "linkMemories" /\ last.ok
  /\ last.id # last.ids[1]
  /\ \E old \in last.prior, l \in links, rev \in links :
       /\ l.from_id = last.id /\ l.to_id = last.ids[1]
       /\ l.relation # old.relation /\ l.weight # old.weight
       /\ rev.from_id = l.to_id /\ rev.to_id = l.from_id
       /\ rev.relation = old.relation /\ rev.weight = old.weight

\* A memory whose expires_at denotes an instant at or before the clock reading.
Expired(m) == m.expires_at # Null /\ Instant(The(m.expires_at)) <= now

Listed(m) ==
  LET page == listWithTotal(Store, InProject(m), now).memories
  IN  \E i \in 1..Len(page) : page[i] = m

Found(m) == m \in SearchRows(Store, m.content, "any", InProject(m), now)

InSnapshot(m) == m \in getContextSnapshot(Store, MaxIds, Some(m.project), now).recent

\* C6: for a memory whose expires_at is null or an ISO 8601 text,
\* listWithTotal, searchWithTotal and getContextSnapshot (of its project, by
\* a word of its content) return it iff expires_at is null or denotes an
\* instant strictly after now, and purgeExpired removes it iff expires_at
\* denotes an instant at or before now.
C6_AliveIffAfterNow ==
  \A m \in memories :
    /\ Listed(m) <=> ~Expired(m)
    /\ Found(m) <=> ~Expired(m)
    /\ InSnapshot(m) <=> ~Expired(m)
    /\ (m.id \in SeqToSet(purgeExpired(Store, now).ids)) <=> Expired(m)

DeepInput(id) ==
  [id |-> id, max_depth |-> Undefined, relation |-> Undefined,
   project |-> Undefined, limit |-> Undefined]

\* C7: getById, getByIds, getRelated, getRelatedDeep, listWithTotal,
\* searchWithTotal and getContextSnapshot never return a memory whose
\* expires_at is at or before the current time.
C7_NoExpiredRead ==
  \A m \in memories :
    Expired(m) =>
      /\ getById(Store, m.id) = Null
      /\ m \notin getByIds(Store, Ids)
      /\ \A id \in Ids : m \notin getRelated(Store, id, "both")
      /\ \A id \in Ids :
           LET deep == getRelatedDeep(Store, DeepInput(id))
           IN  \A i \in 1..Len(deep) : deep[i].memory # m
      /\ ~Listed(m)
      /\ ~Found(m)
      /\ ~InSnapshot(m)

\* listWithTotal({}) returns m.
ListedByDefault(m) ==
  LET page == listWithTotal(Store, NoFilter, now).memories
  IN  \E i \in 1..Len(page) : page[i] = m

\* The memories of the default project that pass the list's expiry filter
\* and precede m in the default order (created_at DESC, rowid DESC).
Before(m) ==
  {x \in memories :
     /\ x.project = DefaultProject
     /\ EXPIRES_ALIVE(x, now)
     /\ \/ TextLess(m.created_at, x.created_at)
        \/ m.created_at = x.created_at /\ m.rowid < x.rowid}

C9_PurgeExact ==
  [][ last'.op = "purgeExpired" =>
        LET gone == {m \in memories : Expired(m)}
            added == SubSeq(history', Len(history) + 1, Len(history'))
        IN  /\ memories' = memories \ gone
            /\ SeqToSet(last'.ids) = {m.id : m \in gone}
            /\ Len(last'.ids) = Cardinality(gone)
            /\ (purgeExpired(Store, now).purged)' = 0
            /\ SubSeq(history', 1, Len(history)) = history
            /\ Len(added) = Cardinality(gone)
            /\ \A m \in gone : \E i \in 1..Len(added) :
                 added[i].memory_id = m.id /\ added[i].operation = "delete" ]_vars

\* C10: a successful restoreMemory(memory_id, history_id) gives the memory the
\* content, category, tags, metadata and expires_at of that history entry,
\* keeps its id (and every other memory), and appends exactly one entry, an
\* update of that memory; the same restore applied again appends one more
\* entry and leaves every memory as after the first, updated_at aside.
Timeless(mem) == {[m EXCEPT !.updated_at = Null] : m \in mem}

C10_RestoreSnapshot ==
  [][ (last'.op = "restoreMemory" /\ last'.ok) =>
        LET h == The(HistoryEntry([hist |-> history], last'.hid, last'.id))
            old == RowOf([mem |-> memories], last'.id)
            new == RowOf([mem |-> memories'], last'.id)
            top == history'[Len(history')]
            again == (restoreMemory(Store, last.id, last.hid, now))'
        IN  /\ new.content = h.content /\ new.category = h.category
            /\ new.tags = h.tags /\ new.metadata = h.metadata
            /\ new.expires_at = h.expires_at
            /\ Cardinality({m \in memories' : m.id = last'.id}) = 1
            /\ memories' \ {new} = memories \ {old}
            /\ Len(history') = Len(history) + 1
            /\ SubSeq(history', 1, Len(history)) = history
            /\ top.operation = "update" /\ top.memory_id = last'.id
            /\ again.ret # Null
            /\ Len(again.s.hist) = Len(history') + 1
            /\ SubSeq(again.s.hist, 1, Len(history')) = history'
            /\ Timeless(again.s.mem) = Timeless(memories') ]_vars

\* A restore has brought back the content a memory had before an update.
C10_Witness ==
  /\ last.op = "restoreMemory" /\ last.ok
  /\ Len(history) >= 3
  /\ \E i \in 1..Len(history) :
       /\ history[i].history_id = last.hid
       /\ history[i].memory_id = last.id
       /\ RowOf(Store, last.id).content = history[i].content
       /\ \E j \in (i + 1)..(Len(history) - 1) :
            /\ history[j].memory_id = last.id
            /\ history[j].content # history[i].content

\* C11: a successful restoreMemory naming the history entry of the memory's
\* create leaves the memory's content, category, tags, metadata, project and
\* expires_at equal to that entry's snapshot, whatever updates, renames,
\* migrations and restores came in between.
C11_RestoreCreateSnapshot ==
  [][ (last'.op = "restoreMemory" /\ last'.ok) =>
        LET h == The(HistoryEntry([hist |-> history], last'.hid, last'.id))
            new == RowOf([mem |-> memories'], last'.id)
        IN  h.operation = "create" => Snapshot(new) = Snapshot(h) ]_vars

\* C12: update, delete and restoreMemory naming an id that identifies no
\* memory, and restoreMemory naming a history_id that identifies no entry of
\* that memory, report no result (null / false), raise nothing and leave
\* memories, links, history and the full-text index as they were.
NoSuchTarget ==
  /\ last'.op \in {"update", "delete", "restoreMemory"}
  /\ \/ \A m \in memories : m.id # last'.id
     \/ /\ last'.op = "restoreMemory"
        /\ \A i \in 1..Len(history) :
             ~(history[i].history_id = last'.hid /\ history[i].memory_id = last'.id)

C12_MissingTargetNoOp ==
  [][ NoSuchTarget =>
        /\ ~last'.ok /\ ~last'.err
        /\ memories' = memories
        /\ links' = links
        /\ history' = history
        /\ fts' = fts ]_vars

\* A restoreMemory named an existing memory and the history entry of another
\* memory, and returned null.
C12_Witness ==
  /\ last.op = "restoreMemory" /\ ~last.ok
  /\ \E m \in memories : m.id = last.id
  /\ \E i \in 1..Len(history) :
       history[i].history_id = last.hid /\ history[i].memory_id # last.id

\* C13: every stored memory has non-empty content without leading or trailing
\* white space: save_memory and update store no memory whose trimmed content
\* is empty.
C13_ContentNonEmpty ==
  \A m \in memories : m.content # <<>> /\ m.content = Trim(m.content)

\* C14: in every state reached by create, update, importBatch, renameTag and
\* restoreMemory no memory's tags hold the same tag twice or a tag that is
\* empty or only white space.
C14_TagsClean ==
  \A m \in memories :
    /\ \A i \in 1..Len(m.tags) : Trim(m.tags[i]) # <<>>
    /\ \A i, j \in 1..Len(m.tags) : m.tags[i] = m.tags[j] => i = j

\* C15: a successful update(id, input) gives the memory the normalized value
\* of every field the input supplies and keeps the value of every field it
\* omits; expires_at is kept when omitted, cleared when null and set when a
\* value is given; id, created_at and project are kept, updated_at is the
\* time of the call, and no other memory changes.
C15_UpdateFrame ==
  [][ (last'.op = "update" /\ last'.ok) =>
        LET i == last'.input
            old == RowOf([mem |-> memories], last'.id)
            new == RowOf([mem |-> memories'], last'.id)
        IN  /\ new.content = (IF i.content = Null THEN old.content ELSE Trim(The(i.content)))
            /\ new.category =
                 (IF i.category = Null THEN old.category ELSE normalizeCategory(i.category))
            /\ new.tags = (IF i.tags = Null THEN old.tags ELSE normalizeTags(i.tags))
            /\ new.metadata = (IF i.metadata = Null THEN old.metadata ELSE The(i.metadata))
            /\ new.expires_at =
                 (IF i.expires_at = Null THEN old.expires_at ELSE The(i.expires_at))
            /\ new.id = old.id /\ new.rowid = old.rowid
            /\ new.created_at = old.created_at /\ new.project = old.project
            /\ new.updated_at = DatetimeNow(now)
            /\ memories' \ {new} = memories \ {old} ]_vars

\* An update that supplied no field, at a later time than the create, on a
\* memory that has tags, metadata, an expiry time and a project of its own.
C15_Witness ==
  /\ last.op = "update" /\ last.ok /\ last.input = NoUpdate
  /\ \E m \in memories :
       /\ m.id = last.id
       /\ m.updated_at # m.created_at
       /\ m.tags # <<>> /\ m.expires_at # Null /\ m.project # DefaultProject

\* The ids of a memory set.
IdsOf(mems) == {m.id : m \in mems}

\* The ids a batch of update items lists, in order.
ListedIds(items) == [i \in DOMAIN items |-> items[i].id]

\* The update items are all well-formed.
ValidItems(items) == \A i \in DOMAIN items : items[i].input # BadUpdateInput

\* C16 as stated: deleteBatch(ids) and updateBatch(items) do not fail for a
\* missing id; they apply the operation to every listed memory that exists,
\* notFound is exactly the listed ids that named no memory when the call
\* started, and deleted (the length of updated) is the number of memories
\* removed (updated).
C16_BatchMisses ==
  [][ /\ (last'.op = "deleteBatch" /\ BadId \notin SeqToSet(last'.input)) =>
           LET listed == last'.input
               missing(id) == id \notin IdsOf(memories)
           IN  /\ ~last'.err
               /\ memories' = {m \in memories : m.id \notin SeqToSet(listed)}
               /\ last'.ids = SelectSeq(listed, missing)
               /\ last'.deleted = Cardinality(memories) - Cardinality(memories')
      /\ (last'.op = "updateBatch" /\ ValidItems(last'.input)) =>
           LET listed == ListedIds(last'.input)
               missing(id) == id \notin IdsOf(memories)
           IN  /\ ~last'.err
               /\ {w.row.id : w \in SeqToSet(writes')} = SeqToSet(listed) \cap IdsOf(memories)
               /\ last'.notFound = SelectSeq(listed, missing)
               /\ Len(last'.ids) = Cardinality({w.row.id : w \in SeqToSet(writes')}) ]_vars

\* The items of listed, in order, whose position satisfies Miss.
RECURSIVE MissedAt(_, _, _)
MissedAt(listed, i, miss) ==
  IF i > Len(listed) THEN <<>>
  ELSE (IF miss[i] THEN <<listed[i]>> ELSE <<>>) \o MissedAt(listed, i + 1, miss)

\* C16 amended: the items are applied in order, so a repeated id is judged
\* against the store its earlier occurrence left: deleteBatch returns in
\* notFound the listed ids that named no memory at the start or were listed
\* before in the same call, and deleted is the number of memories removed;
\* updateBatch returns in notFound the listed ids that named no memory at the
\* start, and updated has one entry per item whose id named a memory.
C16_BatchMissesInOrder ==
  [][ /\ (last'.op = "deleteBatch" /\ BadId \notin SeqToSet(last'.input)) =>
           LET listed == last'.input
               miss == [i \in DOMAIN listed |->
                          \/ listed[i] \notin IdsOf(memories)
                          \/ \E j \in 1..(i - 1) : listed[j] = listed[i]]
           IN  /\ ~last'.err
               /\ memories' = {m \in memories : m.id \notin SeqToSet(listed)}
               /\ last'.ids = MissedAt(listed, 1, miss)
               /\ last'.deleted = Cardinality(memories) - Cardinality(memories')
      /\ (last'.op = "updateBatch" /\ ValidItems(last'.input)) =>
           LET listed == ListedIds(last'.input)
               missing(id) == id \notin IdsOf(memories)
               present(id) == id \in IdsOf(memories)
           IN  /\ ~last'.err
               /\ {w.row.id : w \in SeqToSet(writes')} = SeqToSet(listed) \cap IdsOf(memories)
               /\ last'.notFound = SelectSeq(listed, missing)
               /\ last'.ids = SelectSeq(listed, present)
               /\ Len(writes') = Len(last'.ids) ]_vars

\* A deleteBatch of two ids that removed one memory and reported the other
\* listed id as not found, another memory being left in the store.
C16_Witness ==
  /\ last.op = "deleteBatch" /\ last.ok
  /\ Len(last.input) = 2 /\ BadId \notin SeqToSet(last.input)
  /\ last.deleted = 1 /\ Len(last.ids) = 1
  /\ memories # {}

\* The greatest member of a non-empty set of positions.
LastOf(S) == CHOOSE i \in S : \A j \in S : j <= i

\* The positions of the items for id that supply a value picked by Field.
Supplying(items, id, f) ==
  {i \in DOMAIN items : items[i].id = id /\ items[i].input[f] # Null}

\* The position in the result's ids of the non-blank row at position j.
PosInIds(rows, j) == Cardinality({i \in 1..j : NonBlank(rows[i])})

\* C17: inside one batch call later items observe the effects of earlier
\* ones: after updateBatch every field of a listed memory has the normalized
\* value of the last item for its id that supplies the field (the earlier
\* value when none does), and in an upsert importBatch a row naming an id
\* that an earlier row of the same batch created updates that memory: the
\* id is reported again and no further memory is inserted for the row.
C17_LaterSeesEarlier ==
  [][ /\ (last'.op = "updateBatch" /\ last'.ok) =>
           \A old \in memories :
             LET items == last'.input
                 new == RowOf([mem |-> memories'], old.id)
                 at(f) == items[LastOf(Supplying(items, old.id, f))].input
                 kept(f) == Supplying(items, old.id, f) = {}
             IN  /\ new.content =
                      (IF kept("content") THEN old.content
                       ELSE Trim(The(at("content").content)))
                 /\ new.category =
                      (IF kept("category") THEN old.category
                       ELSE normalizeCategory(at("category").category))
                 /\ new.tags =
                      (IF kept("tags") THEN old.tags ELSE normalizeTags(at("tags").tags))
                 /\ new.metadata =
                      (IF kept("metadata") THEN old.metadata
                       ELSE The(at("metadata").metadata))
                 /\ new.expires_at =
                      (IF kept("expires_at") THEN old.expires_at
                       ELSE The(at("expires_at").expires_at))
      /\ (last'.op = "importBatch" /\ last'.ok /\ last'.mode = "upsert") =>
           LET rows == last'.input
               ids == last'.ids
               fresh == SeqToSet(ids) \ IdsOf(memories)
               again == {j \in DOMAIN rows :
                           /\ NonBlank(rows[j]) /\ rows[j].id # Null
                           /\ The(rows[j].id) \in fresh
                           /\ \E i \in 1..(j - 1) :
                                NonBlank(rows[i]) /\ ids[PosInIds(rows, i)] = The(rows[j].id)}
           IN  /\ \A j \in again : ids[PosInIds(rows, j)] = The(rows[j].id)
               /\ IdsOf(memories') = IdsOf(memories) \cup fresh
               /\ Cardinality(fresh) + Cardinality(again)
                    <= Cardinality({j \in DOMAIN rows : NonBlank(rows[j])})
               /\ \A j \in again :
                    (\A k \in (j + 1)..Len(rows) : rows[k].id # rows[j].id) =>
                      RowOf([mem |-> memories'], The(rows[j].id)).content
                        = Trim(The(rows[j].content)) ]_vars

\* An upsert importBatch whose second row named the id its first row had
\* just created: one memory was inserted and then updated.
C17_Witness ==
  /\ last.op = "importBatch" /\ last.ok /\ last.mode = "upsert"
  /\ Len(last.input) = 2 /\ Len(last.ids) = 2
  /\ last.input[1].id = Null
  /\ last.input[2].id = Some(last.ids[1])
  /\ last.ids[2] = last.ids[1]
  /\ Cardinality(memories) = 1
  /\ \E m \in memories : m.id = last.ids[1] /\ m.content = Trim(The(last.input[2].content))

\* The positions of the rows importBatch does not skip.
NonBlankRows(rows) == {j \in DOMAIN rows : NonBlank(rows[j])}

\* The ids the rows supply.
SuppliedIds(rows) == {The(rows[j].id) : j \in {i \in DOMAIN rows : rows[i].id # Null}}

\* No row supplies an id that the generator has yet to hand out: randomUUID
\* returns ids the caller cannot hold beforehand.  n is the number of ids
\* generated so far.
Unguessed(rows, n) == \A id \in SuppliedIds(rows) : id <= n

\* C18: importBatch in insert mode stores no memory under a supplied id and
\* changes no memory that existed before: every row with non-blank content
\* creates one memory with that content, trimmed, under a fresh id, blank
\* rows create nothing, imported is the number of non-blank rows, skipped
\* the number of blank rows and ids are exactly the new ids, in row order.
C18_InsertImport ==
  [][ (/\ last'.op = "importBatch" /\ last'.ok /\ last'.mode = "insert"
       /\ Unguessed(last'.input, nextId)) =>
        LET rows == last'.input
            ids == last'.ids
            nb == NonBlankRows(rows)
            new == memories' \ memories
        IN  /\ memories \subseteq memories'
            /\ IdsOf(new) \cap (IdsOf(memories) \cup SuppliedIds(rows)) = {}
            /\ Cardinality(new) = Cardinality(nb)
            /\ last'.imported = Cardinality(nb)
            /\ last'.skipped = Len(rows) - Cardinality(nb)
            /\ Len(ids) = Cardinality(nb) /\ SeqToSet(ids) = IdsOf(new)
            /\ \A j \in nb :
                 RowOf([mem |-> memories'], ids[PosInIds(rows, j)]).content
                   = Trim(The(rows[j].content)) ]_vars

\* An insert import of a row that supplied the id of a stored memory and of
\* a blank row: one memory was added under another id, one row was skipped
\* and the memory named by the supplied id is still stored.
C18_Witness ==
  /\ last.op = "importBatch" /\ last.ok /\ last.mode = "insert"
  /\ Len(last.input) = 2
  /\ last.input[1].id # Null /\ The(last.input[1].id) \in IdsOf(memories)
  /\ ~NonBlank(last.input[2])
  /\ last.imported = 1 /\ last.skipped = 1
  /\ last.ids[1] # The(last.input[1].id)
  /\ Cardinality(memories) = 2

\* The content importBatch stores for a row (empty when the row has none).
StoredContent(row) == IF row.content = Null THEN <<>> ELSE Trim(The(row.content))

\* What an upsert import does with the rows at the positions J: a row whose
\* id names a stored memory updates it in place (same row, creation time and
\* project, the id reported in ids, no memory added); any other row adds one
\* memory holding its content under an id the row did not supply, and the
\* supplied id names no memory afterwards; the other memories are unchanged.
UpsertOutcome(rows, J) ==
  LET named(j) == rows[j].id # Null /\ The(rows[j].id) \in IdsOf(memories)
      new == {m \in memories' : m.id \notin IdsOf(memories)}
  IN  /\ IdsOf(memories) \subseteq IdsOf(memories')
      /\ Cardinality(memories') = Cardinality(memories) + Cardinality({j \in J : ~named(j)})
      /\ \A j \in J :
           IF named(j)
           THEN LET old == RowOf([mem |-> memories], The(rows[j].id))
                    cur == RowOf([mem |-> memories'], The(rows[j].id))
                IN  /\ The(rows[j].id) \in SeqToSet(last'.ids)
                    /\ cur.rowid = old.rowid /\ cur.created_at = old.created_at
                    /\ cur.project = old.project
                    /\ (\A k \in J : k > j => rows[k].id # rows[j].id)
                         => cur.content = StoredContent(rows[j])
           ELSE /\ \E m \in new : /\ m.content = StoredContent(rows[j])
                                   /\ m.id \in SeqToSet(last'.ids)
                                   /\ rows[j].id # Some(m.id)
                /\ rows[j].id # Null => The(rows[j].id) \notin IdsOf(memories')
      /\ \A m \in memories : m.id \notin SuppliedIds(rows) => m \in memories'

\* C19 as stated, for every row of the batch: importBatch in upsert mode
\* updates a memory in place iff the row's id names an existing memory; a
\* row whose id is absent or names no memory inserts a new memory under a
\* fresh id and the supplied id names no memory afterwards.
C19_UpsertEveryRow ==
  [][ (/\ last'.op = "importBatch" /\ last'.ok /\ last'.mode = "upsert"
       /\ Unguessed(last'.input, nextId)) =>
        UpsertOutcome(last'.input, DOMAIN last'.input) ]_vars

\* C19 amended: the same, for the rows with non-blank content; a row with
\* missing, empty or blank content is skipped whatever its id.
C19_UpsertNonBlankRows ==
  [][ (/\ last'.op = "importBatch" /\ last'.ok /\ last'.mode = "upsert"
       /\ Unguessed(last'.input, nextId)) =>
        /\ UpsertOutcome(last'.input, NonBlankRows(last'.input))
        /\ last'.skipped = Len(last'.input) - Cardinality(NonBlankRows(last'.input))
        /\ Len(last'.ids) = Cardinality(NonBlankRows(last'.input)) ]_vars

\* An upsert import of a row naming a stored memory and of a row without
\* id: the first was updated in place, the second stored as another memory.
C19_Witness ==
  /\ last.op = "importBatch" /\ last.ok /\ last.mode = "upsert"
  /\ Len(last.input) = 2 /\ Len(last.ids) = 2
  /\ last.input[1].id # Null /\ last.ids[1] = The(last.input[1].id)
  /\ last.input[2].id = Null /\ last.ids[2] # last.ids[1]
  /\ IdsOf(memories) = {last.ids[1], last.ids[2]}
  /\ \E m \in memories : m.id = last.ids[1] /\ m.content = StoredContent(last.input[1])

\* C20: importing the result of exportAll() back with mode upsert creates
\* no memory, removes none, and leaves the id and the content of every
\* memory of the store unchanged.
C20_ExportImportRoundTrip ==
  [][ last'.op = "exportImport" =>
        /\ ~last'.err
        /\ IdsOf(memories') = IdsOf(memories)
        /\ Cardinality(memories') = Cardinality(memories)
        /\ nextId' = nextId
        /\ \A m \in memories :
             RowOf([mem |-> memories'], m.id).content = m.content ]_vars

\* A round trip that exported two memories of different content and
\* imported both.
C20_Witness ==
  /\ last.op = "exportImport" /\ last.ok
  /\ last.imported = 2 /\ last.ids[1] # last.ids[2]
  /\ last.input[1].content # last.input[2].content
  /\ Cardinality(memories) = 2

\* The memories one outgoing link away from a memory of S.
Hops(lk, S) == {l.to_id : l \in {l \in lk : l.from_id \in S}}

\* The memories at the end of a walk of k outgoing links from origin.
RECURSIVE WalkEnds(_, _, _)
WalkEnds(lk, origin, k) ==
  IF k = 0 THEN {origin} ELSE Hops(lk, WalkEnds(lk, origin, k - 1))

\* The length of the shortest path of links of lk from origin to id (0 when
\* there is none); n bounds the length of a shortest path.
Distance(lk, origin, id, n) ==
  LET ks == {k \in 1..n : id \in WalkEnds(lk, origin, k)}
  IN  IF ks = {} THEN 0 ELSE CHOOSE k \in ks : \A j \in ks : k <= j

\* The links of a relation (all links when none is given).
OfRelation(lk, relation) == {l \in lk : relation = Null \/ l.relation = The(relation)}

\* C21: getRelatedDeep returns no entry for the origin, at most one entry
\* per memory, and for each entry the length of the shortest path of
\* outgoing links (of the relation asked for, when one is given) from the
\* origin to the memory.
C21_DeepShortestPath ==
  \A id \in 1..MaxGraph, relation \in {Null, Some("caused")},
     max_depth \in {Null, Some(1)} :
    LET out == getRelatedDeep(Store, [DeepInput(id) EXCEPT !.relation = relation,
                                                           !.max_depth = max_depth])
    IN  \A i \in DOMAIN out :
          /\ out[i].memory.id # id
          /\ \A j \in DOMAIN out : out[j].memory.id = out[i].memory.id => j = i
          /\ out[i].depth = Distance(OfRelation(links, relation), id, out[i].memory.id,
                                      Cardinality(memories))

\* The depth getRelatedDeep is to stop at: min(5, max(1, max_depth)), 3 by default.
DepthAsked(max_depth) ==
  IF max_depth = Null THEN 3
  ELSE IF The(max_depth) < 1 THEN 1
  ELSE IF The(max_depth) > 5 THEN 5 ELSE The(max_depth)

\* The values of max_depth tried: omitted, below, inside and above the range.
DepthsTried == {Null, Some(-1), Some(0), Some(1), Some(2), Some(5), Some(6), Some(9)}

\* C22: on every link graph, cycles and links in both directions included,
\* getRelatedDeep yields a result; every entry has a depth between 1 and
\* min(5, max(1, max_depth)), and each path behind an entry visits no memory
\* after the origin twice, so it is no longer than the number of memories.
C22_DeepBounded ==
  \A id \in 1..MaxChain, max_depth \in DepthsTried :
    LET out == getRelatedDeep(Store, [DeepInput(id) EXCEPT !.max_depth = max_depth])
    IN  \A i \in DOMAIN out :
          /\ out[i].depth >= 1 /\ out[i].depth <= DepthAsked(max_depth)
          /\ \A t \in out[i].via :
               /\ Len(t.path) = t.depth + 1
               /\ Len(t.path) <= Cardinality(memories) + 1
               /\ \A a, b \in 2..Len(t.path) : t.path[a] = t.path[b] => a = b

\* The chain is closed into a cycle and has a link back; from memory 1 a
\* call with max_depth = 9 returns the memory five links away and not the
\* one six links away.
C22_Witness ==
  /\ HasLink(Store, MaxChain, 1) /\ HasLink(Store, 2, 1) /\ HasLink(Store, 1, 1)
  /\ \A f \in 1..(MaxChain - 1) : HasLink(Store, f, f + 1)
  /\ LET out == getRelatedDeep(Store, [DeepInput(1) EXCEPT !.max_depth = Some(9)])
     IN  /\ \E i \in DOMAIN out : out[i].memory.id = 6 /\ out[i].depth = 5
         /\ \A i \in DOMAIN out : out[i].memory.id # MaxChain

\* C23: for an origin of any project and for any project argument, given or
\* not, getRelatedDeep returns exactly the memories other than the origin
\* that are reachable from it and are in the origin's project.
C23_DeepOriginProject ==
  \A o \in memories, project \in {Null, Some(DefaultProject), Some("other")} :
    LET out == getRelatedDeep(Store, [DeepInput(o.id) EXCEPT !.project = project])
    IN  {out[i].memory.id : i \in DOMAIN out} \ {o.id}
          = {m.id : m \in {m \in memories :
                             /\ m.id # o.id
                             /\ m.project = o.project
                             /\ Distance(links, o.id, m.id, Cardinality(memories)) > 0}}

\* The inputs create is tried with: those of the specifications that create
\* with link inference, and each of them with auto_link = false.
AutoLinkInputs ==
  LET given == TtlCreates \cup CoreCreates
  IN  given \cup {[i EXCEPT !.auto_link = Some(FALSE)] : i \in given}

SharedTags(a, b) == Cardinality({i \in 1..Len(b.tags) : b.tags[i] \in SeqToSet(a.tags)})

ByTags(new, peer) == Len(new.tags) >= 2 /\ SharedTags(new, peer) >= 2

ByContent(new, peer, rk) ==
  LET terms == Limit(Words(new.content), AutoTerms)
  IN  /\ Len(terms) >= 2
      /\ peer \in FtsJoin(Store, [mode |-> "any", terms |-> terms])
      /\ rk[peer.id] < RankThreshold

\* The relation and weight the first heuristic a peer qualifies under gives.
FirstHeuristic(new, peer, rk) ==
  IF ByTags(new, peer)
  THEN [relation |-> "related", weight |-> Min(WeightOne, SharedTags(new, peer) * TagWeightStep)]
  ELSE IF ByContent(new, peer, rk)
  THEN [relation |-> "references", weight |-> Min(90, Max(10, Abs(rk[peer.id])))]
  ELSE [relation |-> "related", weight |-> TemporalWeight]

\* C24: create adds links only from the new memory to a peer, each flagged
\* auto_generated = 1, at most one per peer, the peer being a memory of the
\* new memory's project that is alive (expires_at null or an instant after
\* now); the link carries the relation and weight of the first heuristic the
\* peer qualifies under (shared tags, content similarity, temporal
\* proximity); no link that existed is altered; with auto_link = false the
\* links are unchanged.
C24_AutoLinkPeers ==
  \A input \in AutoLinkInputs, rk \in Ranks :
    LET r == create(Store, input, nextId + 1, rk, now)
        new == The(r.ret)
        added == r.s.links \ links
    IN  /\ links \subseteq r.s.links
        /\ \A l \in added :
             /\ l.from_id = new.id
             /\ l.auto_generated = 1
             /\ \E m \in memories :
                  /\ m.id = l.to_id
                  /\ m.project = new.project
                  /\ ~Expired(m)
                  /\ l.relation = FirstHeuristic(new, m, rk).relation
                  /\ l.weight = FirstHeuristic(new, m, rk).weight
        /\ \A l1, l2 \in added : l1.to_id = l2.to_id => l1 = l2
        /\ input.auto_link = Some(FALSE) => added = {}

\* C25: when link inference throws during create, create does not fail: it
\* returns the new memory, and the memory row and its create history entry
\* are stored.
C25_AutoLinkFailureSwallowed ==
  [][(last'.op = "create" /\ last'.input.auto_link # Some(FALSE) /\ last'.at # "none") =>
       /\ ~last'.err
       /\ last'.ret # Null
       /\ The(last'.ret).id = last'.id
       /\ The(last'.ret).content = Trim(last'.input.content)
       /\ memories' = memories \cup {The(last'.ret)}
       /\ Len(history') = Len(history) + 1
       /\ history'[Len(history')].memory_id = last'.id
       /\ history'[Len(history')].operation = "create"
       /\ Snapshot(history'[Len(history')]) = Snapshot(The(last'.ret))]_vars

\* A create whose link inference threw after the shared-tags strategy had
\* written a link: the memory and the link are stored.
C25_Witness ==
  /\ last.op = "create"
  /\ last.at = "fts"
  /\ ~last.err
  /\ \E m \in memories : m.id = last.id
  /\ \E l \in links : l.from_id = last.id /\ l.weight = 2 * TagWeightStep

\* C26: every stored link has a weight between 0.0 and 1.0 inclusive,
\* whatever weight linkMemories was given; a link made by linkMemories
\* without a weight has weight 1.0 and auto_generated 0; every link a create
\* wrote has auto_generated 1.
C26_WeightInRange ==
  /\ \A l \in links : l.weight >= 0 /\ l.weight <= WeightOne
  /\ (last.op = "linkMemories" /\ last.ok /\ last.input.weight = Null) =>
       \E l \in links : /\ l.from_id = last.input.from_id
                        /\ l.to_id = last.input.to_id
                        /\ l.weight = WeightOne
                        /\ l.auto_generated = 0
  /\ last.op = "create" =>
       \A l \in links : l.from_id = last.id => l.auto_generated = 1

\* C27: suggestLinks changes nothing: memories, links and history entries
\* are the same after the call as before, and no suggestion names a pair of
\* memories that has a link in either direction.
C27_SuggestLinksReadOnly ==
  [][last'.op = "suggestLinks" =>
       /\ memories' = memories
       /\ links' = links
       /\ history' = history
       /\ fts' = fts
       /\ \A i \in 1..Len(last'.ret.suggestions) :
            LET g == last'.ret.suggestions[i]
            IN  /\ ~HasLink(Store, g.from_id, g.to_id)
                /\ ~HasLink(Store, g.to_id, g.from_id)]_vars

\* suggestLinks for a memory whose only peer qualifies (same project,
\* category and hour) but is linked to it by an incoming link alone: the
\* memory is analysed and the peer is not suggested.
C27_Witness ==
  /\ last.op = "suggestLinks"
  /\ last.input.id # Null
  /\ last.ret.analysed = 1
  /\ last.ret.suggestions = <<>>
  /\ \E m \in memories, peer \in memories :
       /\ m.id = The(last.input.id)
       /\ peer.id # m.id
       /\ peer.project = m.project
       /\ peer.category = m.category
       /\ peer.created_at = m.created_at
       /\ HasLink(Store, peer.id, m.id)
       /\ ~HasLink(Store, m.id, peer.id)

\* The links other than the directed link (from_id, to_id).
OtherLinks(lk, from_id, to_id) == {l \in lk : ~(l.from_id = from_id /\ l.to_id = to_id)}

\* C28: updateLink(from, to, relation) and unlinkMemories(from, to) leave
\* every link other than (from, to) as it was, the reverse link (to, from)
\* included, and change no memory; updateLink creates no link and changes
\* only the relation of (from, to); unlinkMemories removes (from, to); each
\* reports whether the link existed, and when it did not the links are
\* unchanged; an unlinkMemories repeated right after itself reports false.
C28_LinkFrame ==
  [][last'.op \in {"updateLink", "unlinkMemories"} =>
       LET from_id == last'.id
           to_id == last'.ids[1]
           was == links \ OtherLinks(links, from_id, to_id)
           is == links' \ OtherLinks(links', from_id, to_id)
       IN  /\ OtherLinks(links', from_id, to_id) = OtherLinks(links, from_id, to_id)
           /\ memories' = memories
           /\ history' = history
           /\ last'.ok <=> was # {}
           /\ was = {} => links' = links
           /\ last'.op = "updateLink" =>
                /\ Cardinality(is) = Cardinality(was)
                /\ \A l \in was : is = {[l EXCEPT !.relation = last'.relation]}
           /\ last'.op = "unlinkMemories" =>
                /\ is = {}
                /\ (last.op = "unlinkMemories" /\ last.id = from_id /\ last.ids = <<to_id>>)
                     => ~last'.ok]_vars

\* unlinkMemories removed a link whose reverse link is still stored, after
\* an updateLink had changed a relation.
C28_Witness ==
  /\ last.op = "unlinkMemories"
  /\ last.ok
  /\ last.id # last.ids[1]
  /\ ~HasLink(Store, last.id, last.ids[1])
  /\ \E l \in links : /\ l.from_id = last.ids[1]
                      /\ l.to_id = last.id
                      /\ l.relation = "references"

\* C29: no stored link has from_id = to_id: the tools link_memories and
\* update_link and the command-line command link, called with equal
\* endpoints, report an error and leave memories, links and history as they
\* were.
C29_NoSelfLink ==
  [][/\ \A l \in links' : l.from_id # l.to_id
     /\ (last'.op \in {"link_memories", "update_link", "link"} /\ last'.id = last'.ids[1]) =>
          /\ last'.err
          /\ memories' = memories
          /\ links' = links
          /\ history' = history]_vars

\* C30: renameTag(t, t) returns updated = 0 and changes nothing, also when
\* memories carry t: no memory (its tags and updated_at included) changes
\* and no history entry is appended.
C30_RenameToSameTag ==
  [][(last'.op = "renameTag" /\ last'.ids[1] = last'.ids[2]) =>
       /\ ~last'.ok
       /\ memories' = memories
       /\ history' = history]_vars

\* The memories renameTag(oldTag, ., project) is to change: those of the
\* project (the default project when omitted) whose tags hold oldTag.
Carrying(oldTag, project) ==
  {m \in memories : /\ m.project = (IF project = Null THEN DefaultProject ELSE The(project))
                    /\ oldTag \in SeqToSet(m.tags)}

\* C31: renameTag(old, new, project) with old # new: every memory of the
\* project that carried old no longer holds old, holds new exactly once and
\* keeps its other tags and fields (updated_at aside); every other memory,
\* those of other projects included, is unchanged; one history entry is
\* appended for each changed memory and none for any other; updated is the
\* number of memories changed.
C31_RenameTagFrame ==
  [][(last'.op = "renameTag" /\ last'.ids[1] # last'.ids[2]) =>
       LET oldTag == last'.ids[1]
           newTag == last'.ids[2]
           carried == Carrying(oldTag, last'.project)
       IN  /\ last'.updated = Cardinality(carried)
           /\ {m.id : m \in memories'} = {m.id : m \in memories}
           /\ memories \ carried \subseteq memories'
           /\ \A m \in carried :
                \E n \in memories' :
                  /\ n.id = m.id
                  /\ oldTag \notin SeqToSet(n.tags)
                  /\ Cardinality({i \in 1..Len(n.tags) : n.tags[i] = newTag}) = 1
                  /\ SeqToSet(n.tags) = (SeqToSet(m.tags) \ {oldTag}) \cup {newTag}
                  /\ [n EXCEPT !.tags = m.tags, !.updated_at = m.updated_at] = m
           /\ Len(history') = Len(history) + Cardinality(carried)
           /\ SubSeq(history', 1, Len(history)) = history
           /\ {history'[i].memory_id : i \in (Len(history) + 1)..Len(history')}
                = {m.id : m \in carried}]_vars

\* renameTag(t, u) changed a memory that carried both t and u and left a
\* memory of another project that carries t as it was.
C31_Witness ==
  /\ last.op = "renameTag"
  /\ last.ids = <<TT, TU>>
  /\ last.updated = 1
  /\ \E m \in memories : m.project = DefaultProject /\ m.tags = <<TU>>
                         /\ history[Len(history)].memory_id = m.id
                         /\ history[Len(history) - 1].tags = <<TT, TU>>
                         /\ history[Len(history) - 1].memory_id = m.id
  /\ \E m \in memories : m.project = "other" /\ TT \in SeqToSet(m.tags)

\* The filters, limits and offsets listWithTotal is asked with.
ListQueries ==
  LET shapes == { NoFilter,
                  [NoFilter EXCEPT !.category = Some(Code)],
                  [NoFilter EXCEPT !.tag = Some(TT), !.sort_by = Some("created_at_asc")],
                  [NoFilter EXCEPT !.metadata_key = Some("k"), !.metadata_value = Some("v")],
                  [NoFilter EXCEPT !.project = Some("other"),
                                   !.created_after = Some(DatetimeNow(0))],
                  [NoFilter EXCEPT !.sort_by = Some("updated_at_desc"),
                                   !.updated_before = Some(DatetimeNow(0))] }
  IN  {[q EXCEPT !.limit = l, !.offset = o] :
         q \in shapes, l \in {Undefined, Some(1)}, o \in {Undefined, Some(1), Some(MaxIds)}}

\* The memories an input's filters select: alive, of the project, of the
\* category, holding the tag and the metadata entry, within the date bounds.
Matching(input) ==
  {m \in memories :
     /\ ~Expired(m)
     /\ m.project = (IF input.project = Null THEN DefaultProject ELSE The(input.project))
     /\ input.category = Null \/ m.category = The(input.category)
     /\ input.tag = Null \/ The(input.tag) \in SeqToSet(m.tags)
     /\ input.metadata_key = Null
          \/ <<The(input.metadata_key), The(input.metadata_value)>> \in m.metadata
     /\ input.created_after = Null
          \/ Instant(m.created_at) >= Instant(The(input.created_after))
     /\ input.updated_before = Null
          \/ Instant(m.updated_at) <= Instant(The(input.updated_before))}

\* x comes before m in the sort order (ties by rowid, in the same direction).
SortsBefore(x, m, sort_by) ==
  LET at(r) == IF sort_by = Some("updated_at_desc") THEN Instant(r.updated_at)
               ELSE Instant(r.created_at)
  IN  IF sort_by = Some("created_at_asc")
      THEN at(x) < at(m) \/ (at(x) = at(m) /\ x.rowid < m.rowid)
      ELSE at(x) > at(m) \/ (at(x) = at(m) /\ x.rowid > m.rowid)

\* C32: for every filter, limit and offset, listWithTotal returns total = the
\* number of matching memories, also when offset is at or beyond that number,
\* and memories = positions offset .. offset + limit of the sorted matches.
C32_ListTotal ==
  \A input \in ListQueries :
    LET r == listWithTotal(Store, input, now)
        matches == Matching(input)
        limit == IF input.limit = Null THEN DefaultLimit ELSE The(input.limit)
        offset == IF input.offset = Null THEN 0 ELSE The(input.offset)
    IN  /\ r.total = Cardinality(matches)
        /\ Len(r.memories) = Max(0, Min(limit, Cardinality(matches) - offset))
        /\ \A k \in 1..Len(r.memories) :
             /\ r.memories[k] \in matches
             /\ Cardinality({x \in matches : SortsBefore(x, r.memories[k], input.sort_by)})
                  = offset + k - 1

\* The entries of one memory, in the order they were appended.
EntriesOf(hist, id) == SelectSeq(hist, LAMBDA e : e.memory_id = id)

\* C33: history is append-only: every step keeps the entries there were, in
\* place and unchanged (also when it deletes or purges their memory), and
\* gives each entry it appends a history_id greater than that of every
\* earlier entry; getHistory returns a memory's entries newest first, that is
\* in the reverse of the order they were appended.
C33_HistoryAppendOnly ==
  [][/\ Len(history') >= Len(history)
     /\ SubSeq(history', 1, Len(history)) = history
     /\ \A i \in (Len(history) + 1)..Len(history') :
          \A j \in 1..(i - 1) : history'[j].history_id < history'[i].history_id
     /\ \A id \in 1..MaxIds :
          LET mine == EntriesOf(history', id)
              h == getHistory([hist |-> history'],
                              [memory_id |-> id, limit |-> Undefined, offset |-> Undefined])
          IN  /\ h.total = Len(mine)
              /\ Len(h.entries) = Len(mine)
              /\ \A k \in 1..Len(mine) : h.entries[k] = mine[Len(mine) + 1 - k]]_vars

\* A purged memory whose create, update and delete entries were written at
\* different times are all kept; getHistory returns the delete entry first.
C33_Witness ==
  /\ last.op = "purgeExpired"
  /\ \E id \in 1..MaxIds :
       LET h == getHistory(Store, [memory_id |-> id, limit |-> Undefined,
                                   offset |-> Undefined]).entries
       IN  /\ ~HasId(Store, id)
           /\ Len(h) = 3
           /\ h[1].operation = "delete"
           /\ h[2].operation = "update"
           /\ h[3].operation = "create"
           /\ h[3].changed_at # h[1].changed_at

\* The sum of the values of a function with a finite domain.
RECURSIVE SumOf(_)
SumOf(f) ==
  IF DOMAIN f = {} THEN 0
  ELSE LET c == CHOOSE x \in DOMAIN f : TRUE
       IN  f[c] + SumOf([x \in DOMAIN f \ {c} |-> f[x]])

\* C34: getStats(project).total is the number of alive memories of the
\* project (the default project when omitted) and the sum of the by_category
\* counts.
C34_StatsTotalAlive ==
  \A project \in {Undefined, Some("other")} :
    LET r == getStats(Store, project)
        proj == IF project = Null THEN DefaultProject ELSE The(project)
    IN  /\ r.total = Cardinality({m \in memories : m.project = proj /\ ~Expired(m)})
        /\ r.total = SumOf(r.by_category)

\* C35: create with deduplicate: true, when an alive memory of the same
\* project holds the trimmed content, inserts nothing (no row, no history
\* entry, no link) and returns that memory; otherwise it inserts one row.
C35_DedupCreate ==
  [][(/\ last'.op = "create"
      /\ "deduplicate" \in DOMAIN last'.input
      /\ last'.input.deduplicate = Some(TRUE)) =>
       LET input == last'.input
           proj == IF input.project = Null THEN DefaultProject ELSE The(input.project)
           same == {m \in memories : /\ ~Expired(m)
                                     /\ m.project = proj
                                     /\ m.content = Trim(input.content)}
       IN  IF same # {}
           THEN /\ memories' = memories
                /\ history' = history
                /\ links' = links
                /\ The(last'.ret) \in same
           ELSE /\ Cardinality(memories') = Cardinality(memories) + 1
                /\ The(last'.ret) \in memories' \ memories]_vars

\* C36: opening a file whose stored schema version is v applies the
\* migration steps v+1 .. 5 in increasing order, each once, and ends with
\* version 5; no step of opening changes a row, and opening a file at
\* version 5 applies no step and leaves schema and version as they were.
C36_MigrationsInOrder ==
  [][LET p == pc'
         done == IF p.at = "ready" THEN SchemaVersion ELSE p.k - 1
     IN  /\ p.at \in {"initialize", "ready"} =>
              /\ Len(p.steps) = (IF done > p.dbVersion THEN done - p.dbVersion ELSE 0)
              /\ \A i \in 1..Len(p.steps) : p.steps[i] = p.dbVersion + i
              /\ user_version' = (IF done > p.dbVersion THEN done ELSE p.dbVersion)
         /\ p.at = "ready" => user_version' = SchemaVersion
         /\ last'.op \in {"open", "initialize"} =>
              /\ <<memories, links, history, hseq, fts>>' = <<memories, links, history, hseq, fts>>
              /\ pc.dbVersion = SchemaVersion /\ last'.op = "initialize" =>
                   schema' = schema /\ user_version' = user_version
              /\ user_version = SchemaVersion /\ last'.op = "open" =>
                   schema' = schema /\ user_version' = user_version]_vars

C36_Witness ==
  /\ pc.at = "ready"
  /\ pc.dbVersion = 2
  /\ pc.steps = <<3, 4, 5>>
  /\ user_version = SchemaVersion
  /\ memories # {}

\* C37: the statement a listWithTotal or searchWithTotal call gets from the
\* cache is the one its own SQL text compiles to; the cache holds one entry
\* per key, and every call whose key is that of an entry, whatever its
\* parameter values, would compile the entry's SQL text.
C37_CacheKeyDeterminesSql ==
  /\ last.op = "listWithTotal" => last.stmt = ListSql(last.input)
  /\ last.op = "searchWithTotal" => last.stmt = SearchSql(last.input)
  /\ \A e1, e2 \in stmtCache : e1.key = e2.key => e1 = e2
  /\ \A e \in stmtCache :
       /\ \A q \in CacheLists : ListKey(q) = e.key => ListSql(q) = e.sql
       /\ \A q \in CacheSearches : SearchKey(q) = e.key => SearchSql(q) = e.sql
       /\ \A q \in CacheLists :
            \A l \in {Undefined, Some(1)}, pr \in {Undefined, Some("other")} :
              ListKey([q EXCEPT !.limit = l, !.project = pr]) = ListKey(q)

\* A call with tag 'u' is served from the cache while the cache holds the
\* statements of at least three shapes.
C37_Witness ==
  /\ last.op = "listWithTotal"
  /\ last.hit
  /\ last.input.tag = Some(TU)
  /\ Cardinality(stmtCache) >= 3
  /\ \E e \in stmtCache : e.key = "search_tm"

\* C38: in every getGraph result both endpoints of each edge are memories
\* of the requested project and appear among the nodes; without
\* include_orphans every node is an endpoint of a returned edge; node_count
\* and edge_count are the sizes of nodes and edges.
GraphInputs ==
  [include_orphans : {Undefined, Some(TRUE)},
   relation : {Undefined, Some("related"), Some("caused")},
   project : {Undefined, Some("other")}]

C38_GraphClosed ==
  \A input \in GraphInputs :
    LET g == getGraph(Store, input, now)
        proj == IF input.project = Null THEN DefaultProject ELSE The(input.project)
        nodeIds == {n.id : n \in g.nodes}
    IN  /\ \A e \in g.edges :
             /\ \A id \in {e.from_id, e.to_id} :
                  \E m \in memories : m.id = id /\ m.project = proj
             /\ e.from_id \in nodeIds
             /\ e.to_id \in nodeIds
        /\ input.include_orphans = Undefined =>
             \A n \in g.nodes : \E e \in g.edges : n.id \in {e.from_id, e.to_id}
        /\ g.node_count = Cardinality(g.nodes)
        /\ g.edge_count = Cardinality(g.edges)

\* C39: whenever the command-line program or the server process has ended
\* after opening the store, close() had been called on the store.
C39_ClosedBeforeExit == last.op = "exit" => last.closed

\* The operations of a memory's history entries, oldest first.
OpsOf(hist, id) ==
  LET es == EntriesOf(hist, id) IN [i \in DOMAIN es |-> es[i].operation]

\* A create only as the first entry, a delete only as the last.
Lifecycle(ops) ==
  \A i \in DOMAIN ops : /\ ops[i] = "create" => i = 1
                        /\ ops[i] = "delete" => i = Len(ops)

\* No step appends an entry for an id that has a delete entry.
DeleteIsFinal ==
  \A id \in {e.memory_id : e \in SeqToSet(history)} :
    (\E e \in SeqToSet(history) : e.memory_id = id /\ e.operation = "delete") =>
      EntriesOf(history', id) = EntriesOf(history, id)

\* C40: the history entries of every memory id are, oldest first, exactly one
\* create, then updates, then at most one delete, and no step appends an
\* entry for an id that has a delete entry.
C40_OneCreateFirst ==
  [][/\ \A id \in {e.memory_id : e \in SeqToSet(history')} :
          /\ OpsOf(history', id)[1] = "create"
          /\ Lifecycle(OpsOf(history', id))
     /\ DeleteIsFinal]_vars

\* C40 amended: the history entries of every memory id are, oldest first, at
\* most one create, then updates, then at most one delete; a memory that a
\* step stores has a create as its first entry (a memory that predates the
\* history table has none), and no step appends an entry for an id that has a
\* delete entry.
C40_HistoryLifecycle ==
  [][/\ \A id \in {e.memory_id : e \in SeqToSet(history')} :
          Lifecycle(OpsOf(history', id))
     /\ \A m \in memories' :
          (\A x \in memories : x.id # m.id) =>
            /\ EntriesOf(history', m.id) # <<>>
            /\ OpsOf(history', m.id)[1] = "create"
     /\ DeleteIsFinal]_vars

\* Memory 1 was created, updated and deleted; an upsert import then named
\* it by its id and stored its row under a fresh id, and the entries of
\* memory 1 still end with the delete.
C40_Witness ==
  /\ OpsOf(history, 1) = <<"create", "update", "delete">>
  /\ last.op = "importBatch"
  /\ last.ok
  /\ last.ids = <<2>>
  /\ OpsOf(history, 2) = <<"create">>

====
